---- MODULE Spec2Model ----
(***************************************************************************)
(* Model of stream-logs-to-s3: the event loop of run (src/main.rs), the    *)
(* task queue (src/async_utils.rs), the upload task do_send_file with its  *)
(* single-shot and multi-part paths, and the object-name template          *)
(* evaluator.  Strings are sequences of one-character strings.             *)
(***************************************************************************)
EXTENDS Integers, Sequences, FiniteSets, TLC

\* ------------------------------------------------------------------ bounds
\* longest input stream fed to run, in bytes
MaxInput == 2
\* largest value tried for the --size argument
MaxSizeArg == 2
\* largest value tried for the --duration argument, in clock ticks
MaxDurationArg == 1
\* the clock stops advancing at this tick
MaxTime == 1
\* the on-disk sizes tried reach MaxParts * MAX_PART_SIZE + 1
MaxParts == 2
\* pieces a pattern handed to evaluate_pattern_at is put together from
MaxTokens == 2
\* characters of the bucket and of the path of a URL handed to parse_s3_url
MaxBucketLen == 2
MaxPathLen == 2
\* segments sealed in a run of the byte-count specification
MaxSealed == 2

\* ------------------------------------------------------- program constants
MAX_PART_SIZE == 10485760
BufCapacity == 65536

\* ----------------------------------------------------------------- helpers
Min(a, b) == IF a <= b THEN a ELSE b

RECURSIVE Flatten(_)
Flatten(ss) == IF ss = <<>> THEN <<>> ELSE Head(ss) \o Flatten(Tail(ss))

RECURSIVE SumSeq(_)
SumSeq(s) == IF s = <<>> THEN 0 ELSE Head(s) + SumSeq(Tail(s))

\* --------------------------------------------------- template evaluation
Digits == <<"0", "1", "2", "3", "4", "5", "6", "7", "8", "9">>

RECURSIVE DecimalOf(_)
DecimalOf(n) == IF n < 10 THEN <<Digits[n + 1]>>
                ELSE Append(DecimalOf(n \div 10), Digits[(n % 10) + 1])

RECURSIVE ZeroPad(_, _)
ZeroPad(w, s) == IF Len(s) >= w THEN s ELSE ZeroPad(w, <<"0">> \o s)

\* format!("{:0w}", n)
FormatPadded(w, n) == ZeroPad(w, DecimalOf(n))

Base32Alphabet ==
  << "A", "B", "C", "D", "E", "F", "G", "H", "I", "J", "K", "L", "M", "N", "O", "P",
     "Q", "R", "S", "T", "U", "V", "W", "X", "Y", "Z", "2", "3", "4", "5", "6", "7" >>

\* the 16-bit window of a byte string that starts at byte i; bytes past the
\* end are zero
Window(bytes, i) ==
  bytes[i] * 256 + (IF i + 1 <= Len(bytes) THEN bytes[i + 1] ELSE 0)

\* base32::encode(Alphabet::RFC4648 { padding: false }, bytes): character g
\* encodes the five bits that start at bit 5 * (g - 1) of the byte string
Base32Encode(bytes) ==
  [g \in 1..((8 * Len(bytes) + 4) \div 5) |->
     Base32Alphabet[
       1 + ((Window(bytes, ((5 * (g - 1)) \div 8) + 1)
              \div (2 ^ (11 - ((5 * (g - 1)) % 8)))) % 32)]]

Whitespace == {" ", "\t", "\n"}

RECURSIVE TrimStart(_)
TrimStart(s) == IF s # <<>> /\ Head(s) \in Whitespace THEN TrimStart(Tail(s)) ELSE s

RECURSIVE TrimEnd(_)
TrimEnd(s) == IF s # <<>> /\ s[Len(s)] \in Whitespace
              THEN TrimEnd(SubSeq(s, 1, Len(s) - 1)) ELSE s

\* mutant of Trim: the name is looked up as it stands between the braces
TrimSkipped(s) == s

\* str::trim
Trim(s) == TrimEnd(TrimStart(s))

VarHostId == <<"h", "o", "s", "t", "_", "i", "d">>
VarYear   == <<"y", "e", "a", "r">>
VarMonth  == <<"m", "o", "n", "t", "h">>
VarDay    == <<"d", "a", "y">>
VarHour   == <<"h", "o", "u", "r">>
VarMinute == <<"m", "i", "n", "u", "t", "e">>
VarSecond == <<"s", "e", "c", "o", "n", "d">>
VarUnique == <<"u", "n", "i", "q", "u", "e">>

VariableNames ==
  {VarHostId, VarYear, VarMonth, VarDay, VarHour, VarMinute, VarSecond, VarUnique}

\* the HashMap `variables` built by evaluate_pattern_at
Variables(hid, dt, unique) ==
  [v \in VariableNames |->
     CASE v = VarHostId -> hid
       [] v = VarYear   -> FormatPadded(4, dt.year)
       [] v = VarMonth  -> FormatPadded(2, dt.month)
       [] v = VarDay    -> FormatPadded(2, dt.day)
       [] v = VarHour   -> FormatPadded(2, dt.hour)
       [] v = VarMinute -> FormatPadded(2, dt.minute)
       [] v = VarSecond -> FormatPadded(2, dt.second)
       [] v = VarUnique -> Base32Encode(unique)]

UnmatchedOpen  == <<"Unmatched '{'">>
UnmatchedClose == <<"Unmatched '}'">>
UnknownVariable(name) == <<"Unknown template variable '">> \o name \o <<"'">>

TemplateOk(s)  == [ok |-> TRUE, val |-> s]
TemplateErr(m) == [ok |-> FALSE, val |-> m]

\* mutant of FindClose: the end of the pattern closes an open variable
RECURSIVE FindCloseOrEnd(_, _)
FindCloseOrEnd(p, j) == IF j > Len(p) THEN j
                        ELSE IF p[j] = "}" THEN j ELSE FindCloseOrEnd(p, j + 1)

\* index of the first "}" at or after position j, 0 if there is none
RECURSIVE FindClose(_, _)
FindClose(p, j) == IF j > Len(p) THEN 0
                   ELSE IF p[j] = "}" THEN j ELSE FindClose(p, j + 1)

\* the while loop of evaluate_pattern_at from position i on, `result` being
\* the characters pushed so far
RECURSIVE ScanPattern(_, _, _, _)
ScanPattern(p, i, vars, result) ==
  IF i > Len(p) THEN TemplateOk(result)
  ELSE IF p[i] = "{" THEN
    IF i + 1 > Len(p) THEN TemplateErr(UnmatchedOpen)
    ELSE IF p[i + 1] = "{" THEN ScanPattern(p, i + 2, vars, Append(result, "{"))
    ELSE LET close == FindClose(p, i + 1) IN
         IF close = 0 THEN TemplateErr(UnmatchedOpen)
         ELSE LET var_name == Trim(SubSeq(p, i + 1, close - 1)) IN
              IF var_name \notin DOMAIN vars
              THEN TemplateErr(UnknownVariable(var_name))
              ELSE ScanPattern(p, close + 1, vars, result \o vars[var_name])
  ELSE IF p[i] = "}" THEN
    IF i + 1 > Len(p) THEN TemplateErr(UnmatchedClose)
    ELSE IF p[i + 1] # "}" THEN TemplateErr(UnmatchedClose)
    ELSE ScanPattern(p, i + 2, vars, Append(result, "}"))
  ELSE ScanPattern(p, i + 1, vars, Append(result, p[i]))

evaluate_pattern_at(pattern, hid, dt, unique) ==
  ScanPattern(pattern, 1, Variables(hid, dt, unique), <<>>)

\* the wall clock at tick t: OffsetDateTime::now_utc()
DateTimeAt(t) ==
  LET s == 10 + t
      m == 20 + (s \div 60)
  IN [year |-> 2020, month |-> 5, day |-> 4,
      hour |-> (15 + (m \div 60)) % 24, minute |-> m % 60, second |-> s % 60]

\* the 15-byte nonces thread_rng may deliver
Nonces ==
  { <<75, 214, 151, 173, 47, 90, 94, 180, 189, 105, 122, 210, 245, 165, 235>>,
    <<0, 0, 0, 0, 0, 0, 0, 0, 0, 0, 0, 0, 0, 0, 0>> }

\* mutant of evaluate_pattern: one nonce serves every evaluation
evaluate_pattern_stale_nonce(pattern, hid, t, unique) ==
  evaluate_pattern_at(pattern, hid, DateTimeAt(t), CHOOSE u \in Nonces : TRUE)

\* evaluate_pattern with the clock reading t and the nonce thread_rng delivers
evaluate_pattern(pattern, hid, t, unique) ==
  evaluate_pattern_at(pattern, hid, DateTimeAt(t), unique)

\* the names of the variables the scan of a pattern substitutes, from
\* position i on
RECURSIVE PatternVariables(_, _)
PatternVariables(p, i) ==
  IF i > Len(p) THEN {}
  ELSE IF p[i] = "{" THEN
    IF i + 1 > Len(p) THEN {}
    ELSE IF p[i + 1] = "{" THEN PatternVariables(p, i + 2)
    ELSE LET close == FindClose(p, i + 1) IN
         IF close = 0 THEN {}
         ELSE {Trim(SubSeq(p, i + 1, close - 1))} \cup PatternVariables(p, close + 1)
  ELSE IF p[i] = "}" THEN PatternVariables(p, i + 2)
  ELSE PatternVariables(p, i + 1)


\* ------------------------------------------------------------------ state
VARIABLES
  \* event loop (run)
  pc,                   \* position of run: "idle", "open", "select", "drain", "done", "failed"
  max_size,             \* argument of run
  max_duration,         \* argument of run, in clock ticks
  object_name_pattern,  \* argument of run
  input,                \* the whole byte stream the producer feeds to run
  source,               \* bytes of input no read has fetched yet
  pending,              \* bytes fetched by the pending read, not yet returned to the loop
  consumed,             \* every byte a read has returned to the loop, in order
  now,                  \* the clock
  segs,                 \* every segment opened so far; the last one is current while pc = "select"
  tasks,                \* every upload task pushed to send_futures, in push order
  \* one upload task (do_send_file)
  upc,                  \* position of the upload task
  compress,             \* the segment went through the gzip encoder
  uncompressed_size,    \* current_size of the segment when it was sealed
  disk_size,            \* length of the temp file after the encoder shut down
  size,                 \* the size do_send_file obtained by seeking to the end
  path_exists,          \* the temp file is still linked
  upload_id,            \* the session id returned by create-multipart-upload
  futures,              \* the part uploads pushed to the FuturesOrdered
  finished,             \* part numbers in the order their uploads finished
  completed_parts,      \* part numbers pushed to completed_parts
  saved_error,          \* the saved error, of kind "none" if there is none
  requests,             \* number of object-store requests issued, by kind
  result,               \* result of the upload task, of kind "none" while it runs
  \* one call of evaluate_pattern_at
  tokens,               \* the pieces pattern is put together from
  pattern,              \* argument pattern
  eval_case,            \* arguments host_id, now and unique
  eval_result,          \* the Result returned for pattern
  \* one call of parse_s3_url
  url_parts,            \* the pieces s3_url is put together from
  s3_url,               \* argument s3_url
  url_result,           \* the Result returned, of reason "none" before the call
  \* one call of get_host_id
  host_pc,              \* position of get_host_id
  host_env,             \* the ECS endpoint variables set in the environment
  host_probes,          \* the probes made so far with their outcomes, in order
  host_token,           \* the IMDSv2 token, "none" if there is none
  host_id,              \* the value returned, "none" before the return
  \* the byte counts of run
  sz_pc,                \* position of run: "select" in the inner loop, "done" after it
  sz_max_size,          \* argument max_size
  sz_chunks,            \* lengths of the read results written to the current segment
  sz_sealed             \* the sealed segments: the lengths written, current_size, the cause

loopVars == <<pc, max_size, max_duration, object_name_pattern, input, source, pending,
              consumed, now, segs, tasks>>

uploadVars == <<upc, compress, uncompressed_size, disk_size, size, path_exists,
                upload_id, futures, finished, completed_parts, saved_error,
                requests, result>>

evalVars == <<tokens, pattern, eval_case, eval_result>>

urlVars == <<url_parts, s3_url, url_result>>

vars == <<pc, max_size, max_duration, object_name_pattern, input, source, pending,
          consumed, now, segs, tasks,
          upc, compress, uncompressed_size, disk_size, size, path_exists,
          upload_id, futures, finished, completed_parts, saved_error,
          requests, result,
          tokens, pattern, eval_case, eval_result, url_parts, s3_url, url_result,
          host_pc, host_env, host_probes, host_token, host_id,
          sz_pc, sz_max_size, sz_chunks, sz_sealed>>

sizeVars == <<sz_pc, sz_max_size, sz_chunks, sz_sealed>>

\* the byte counts of run are not part of the specification
SizeIdle == sz_pc = "idle" /\ sz_max_size = 0 /\ sz_chunks = <<>> /\ sz_sealed = <<>>

hostVars == <<host_pc, host_env, host_probes, host_token, host_id>>

\* no call of get_host_id is part of the specification
HostIdle ==
  /\ host_pc = "idle" /\ host_env = {} /\ host_probes = <<>>
  /\ host_token = "none" /\ host_id = "none"

\* no call of evaluate_pattern_at is part of the specification
EvalIdle ==
  tokens = <<>> /\ pattern = <<>> /\ eval_case = 0 /\ eval_result = TemplateOk(<<>>)

\* no call of parse_s3_url is part of the specification
UrlIdle == url_parts = <<>> /\ s3_url = <<>> /\ url_result = <<>>

\* --------------------------------------------------------- the event loop
\* the host id handed to run
HostId == <<"i", "-", "1">>

\* the object-name patterns tried: one using the nonce, one using the clock,
\* one with an unterminated variable
Patterns ==
  { <<"l", "/", "{", "u", "n", "i", "q", "u", "e", "}">>,
    <<"{", "{", "{", " ", "s", "e", "c", "o", "n", "d", "}", "}", "}">>,
    <<"l", "/", "{", "d", "a", "y">> }

\* MaybeTimeout::pending()
Never == -1

\* mutant of Sleep: the timer created never completes
SleepForever(t, duration) == Never

\* MaybeTimeout::sleep(duration) created at tick t
Sleep(t, duration) == t + duration

\* mutant of TimeoutReady: the pending variant completes like a sleep
TimeoutReadyPendingFires(timeout, t) == t >= timeout

\* poll of MaybeTimeout at tick t
TimeoutReady(timeout, t) == timeout # Never /\ t >= timeout

\* the state of a segment right after the top of the outer loop
NewSegment ==
  [chunks |-> <<>>, current_size |-> 0, timeout |-> Never, armed |-> 0,
   sealed |-> FALSE, cause |-> "none", named |-> FALSE, exists |-> TRUE]

Current == segs[Len(segs)]

\* TaskQueue::len
QueueLen(ts) == Cardinality({i \in DOMAIN ts : ts[i].state = "inflight"})

\* mutant of Push: the future is built but never handed to the queue
PushForgotten(ts, task) == ts

\* TaskQueue::push
Push(ts, task) == Append(ts, task)

\* mutant of SkipUpload: an upload is pushed although no name was generated
SkipUploadPushed(ts, task) == Append(ts, task)

\* the Err arm of the match on evaluate_pattern: the error is logged, nothing
\* is pushed to the queue
SkipUpload(ts, task) == ts

\* mutant of DrainPending: run returns without draining
DrainSkipped(ts) == FALSE

\* the condition of the drain loop
DrainPending(ts) == QueueLen(ts) > 0

\* mutant of FlushRequired: the size limit must be exceeded
FlushRequiredStrict(current_size, limit) == current_size > limit

\* the flush condition after a successful write
FlushRequired(current_size, limit) == current_size >= limit

\* mutant of WriteErrFlushRequired: a failed write does not force a flush
WriteErrFlushSkipped == FALSE

\* flush_required of the Err arm of the match on write_all
WriteErrFlushRequired == TRUE

\* mutant of ReadErrBadReader: a read error is not taken as the end of the input
ReadErrBadReaderFalse == FALSE

\* bad_reader of the Err arm of the match on read_result
ReadErrBadReader == TRUE

\* mutant of DropTempPath: the path is kept when its owner goes away
KeepTempPath(ss, j) == ss

\* drop of the TempPath of segment j: the temp file is unlinked
DropTempPath(ss, j) == [ss EXCEPT ![j].exists = FALSE]

\* mutant of ArmTimeout: every successful write starts the timer anew
ArmTimeoutAlways(timeout, current_size, t, duration) == Sleep(t, duration)

\* the deadline after a successful write of a segment of size current_size
ArmTimeout(timeout, current_size, t, duration) ==
  IF current_size = 0 THEN Sleep(t, duration) ELSE timeout

\* mutant of CancelRead: the bytes of a cancelled read are lost
CancelReadLossy(p) == <<>>

\* what becomes of the bytes a pending read has fetched when another branch
\* of the select wins: the read is cancel safe, the next read returns them
CancelRead(p) == p

\* mutant of ReadPolled: the read is polled only while no upload is in flight
ReadPolledThrottled == pc = "select" /\ QueueLen(tasks) < 1

\* the read branch of the select is polled in every iteration of the inner loop
ReadPolled == pc = "select"

\* mutant of AfterSeal: the inner loop goes on after a seal
AfterSealNoBreak(bad_reader) == IF bad_reader THEN "drain" ELSE "select"

\* where run goes on after a seal: break 'outer if bad_reader, else break
AfterSeal(bad_reader) == IF bad_reader THEN "drain" ELSE "open"

\* Seal the current segment seg (already updated by the handler) for `cause`:
\* evaluate the pattern, push the upload task or drop the temp file, then
\* break out of the inner loop, or of the outer loop if bad_reader.
Seal(seg, cause, bad_reader) ==
  \E unique \in Nonces :
    \E name \in {evaluate_pattern(object_name_pattern, HostId, now, unique)} :
      /\ segs' = IF name.ok
                 THEN [segs EXCEPT ![Len(segs)] =
                         [seg EXCEPT !.sealed = TRUE, !.cause = cause, !.named = TRUE]]
                 ELSE DropTempPath(
                        [segs EXCEPT ![Len(segs)] =
                           [seg EXCEPT !.sealed = TRUE, !.cause = cause]],
                        Len(segs))
      /\ tasks' = LET task == [seg |-> Len(segs), object_name |-> name.val,
                                 unique |-> unique,
                                 state |-> "inflight", yielded |-> 0]
                  IN IF name.ok THEN Push(tasks, task) ELSE SkipUpload(tasks, task)
      /\ pc' = AfterSeal(bad_reader)

\* top of the outer loop: NamedTempFile::new_in succeeds
OpenSegment ==
  /\ pc = "open"
  /\ segs' = Append(segs, NewSegment)
  /\ pc' = "select"
  /\ UNCHANGED <<max_size, max_duration, object_name_pattern, input, source, pending,
                 consumed, now, tasks>>
  /\ UNCHANGED uploadVars
  /\ UNCHANGED <<evalVars, urlVars, hostVars, sizeVars>>

\* top of the outer loop: NamedTempFile::new_in fails and `?` returns the
\* error from run; send_futures is dropped with the tasks still in it, and
\* each dropped task drops the TempPath it owns
OpenFail ==
  /\ pc = "open"
  /\ pc' = "failed"
  /\ tasks' = [i \in DOMAIN tasks |->
                 IF tasks[i].state = "inflight"
                 THEN [tasks[i] EXCEPT !.state = "dropped"] ELSE tasks[i]]
  /\ segs' = [j \in DOMAIN segs |->
                IF \E i \in DOMAIN tasks : tasks[i].seg = j /\ tasks[i].state = "inflight"
                THEN [segs[j] EXCEPT !.exists = FALSE] ELSE segs[j]]
  /\ UNCHANGED <<max_size, max_duration, object_name_pattern, input, source, pending,
                 consumed, now>>
  /\ UNCHANGED uploadVars
  /\ UNCHANGED <<evalVars, urlVars, hostVars, sizeVars>>

\* the pending read obtains the next k bytes of the input
Fetch ==
  /\ ReadPolled
  /\ pending = <<>>
  /\ source # <<>>
  /\ \E k \in 1..Min(Len(source), BufCapacity) :
       /\ pending' = SubSeq(source, 1, k)
       /\ source' = SubSeq(source, k + 1, Len(source))
  /\ UNCHANGED <<pc, max_size, max_duration, object_name_pattern, input, consumed, now,
                 segs, tasks>>
  /\ UNCHANGED uploadVars
  /\ UNCHANGED <<evalVars, urlVars, hostVars, sizeVars>>

\* select branch: the deadline of the current segment has elapsed
TimeoutFired ==
  /\ pc = "select"
  /\ TimeoutReady(Current.timeout, now)
  /\ Seal(Current, "deadline", FALSE)
  /\ pending' = CancelRead(pending)
  /\ UNCHANGED <<max_size, max_duration, object_name_pattern, input, source, consumed,
                 now>>
  /\ UNCHANGED uploadVars
  /\ UNCHANGED <<evalVars, urlVars, hostVars, sizeVars>>

\* select branch: read returned Ok(n_read) with n_read > 0
ReadData ==
  /\ ReadPolled
  /\ pending # <<>>
  /\ consumed' = consumed \o pending
  /\ pending' = <<>>
  /\ \/ \* write_all succeeded
        LET seg == [Current EXCEPT
                      !.chunks = Append(@, pending),
                      !.timeout = ArmTimeout(@, Current.current_size, now, max_duration),
                      !.armed = IF ArmTimeout(Current.timeout, Current.current_size,
                                              now, max_duration) # Current.timeout
                                THEN @ + 1 ELSE @,
                      !.current_size = @ + Len(pending)]
        IN IF FlushRequired(seg.current_size, max_size)
           THEN Seal(seg, "size", FALSE)
           ELSE /\ segs' = [segs EXCEPT ![Len(segs)] = seg]
                /\ UNCHANGED <<pc, tasks>>
     \/ \* write_all failed after a prefix of the bytes reached the file
        \E k \in 0..(Len(pending) - 1) :
          LET seg == [Current EXCEPT !.chunks = IF k = 0 THEN @
                                                ELSE Append(@, SubSeq(pending, 1, k))]
          IN IF WriteErrFlushRequired
             THEN Seal(seg, "write_error", FALSE)
             ELSE /\ segs' = [segs EXCEPT ![Len(segs)] = seg]
                  /\ UNCHANGED <<pc, tasks>>
  /\ UNCHANGED <<max_size, max_duration, object_name_pattern, input, source, now>>
  /\ UNCHANGED uploadVars
  /\ UNCHANGED <<evalVars, urlVars, hostVars, sizeVars>>

\* mutant of EofFlushRequired: an empty segment is not flushed at EOF
EofFlushRequiredNonEmpty(current_size) == current_size > 0

\* flush_required of the arm Ok(0) of the match on read_result
EofFlushRequired(current_size) == TRUE

\* select branch: read returned Ok(0)
ReadEof ==
  /\ ReadPolled
  /\ pending = <<>>
  /\ source = <<>>
  /\ IF EofFlushRequired(Current.current_size)
     THEN Seal(Current, "eof", TRUE)
     ELSE pc' = "drain" /\ UNCHANGED <<segs, tasks>>
  /\ UNCHANGED <<max_size, max_duration, object_name_pattern, input, source, pending,
                 consumed, now>>
  /\ UNCHANGED uploadVars
  /\ UNCHANGED <<evalVars, urlVars, hostVars, sizeVars>>

\* select branch: read returned Err
ReadError ==
  /\ ReadPolled
  /\ pending = <<>>
  /\ Seal(Current, "read_error", ReadErrBadReader)
  /\ UNCHANGED <<max_size, max_duration, object_name_pattern, input, source, pending,
                 consumed, now>>
  /\ UNCHANGED uploadVars
  /\ UNCHANGED <<evalVars, urlVars, hostVars, sizeVars>>

\* mutant of Ready: the queue yields the outputs in push order
ReadyInPushOrder(ts) ==
  {i \in DOMAIN ts : /\ ts[i].state = "inflight"
                     /\ \A j \in 1..(i - 1) : ts[j].state # "inflight"}

\* the tasks whose output the FuturesUnordered of the TaskQueue can yield
\* next: every future in it is polled, whichever finishes is yielded
Ready(ts) == {i \in DOMAIN ts : ts[i].state = "inflight"}

\* an upload task finishes with result res while send_futures is polled: its
\* TempPath is dropped and next() yields its output
Yield(i, res) ==
  /\ i \in Ready(tasks)
  /\ tasks' = [tasks EXCEPT ![i].state = res, ![i].yielded = @ + 1]
  /\ segs' = DropTempPath(segs, tasks[i].seg)

\* mutant of poll_next: the queue is polled as the FuturesUnordered it wraps,
\* which ends the stream when it is empty
poll_next_unwrapped(ts) ==
  IF QueueLen(ts) = 0 THEN {"None"} ELSE {"Pending", "Some"}

\* TaskQueue::poll_next, as the set of values a poll can return: Pending
\* when the queue is empty, else what the FuturesUnordered returns, which is
\* not empty: Some output or Pending
poll_next(ts) ==
  IF QueueLen(ts) = 0 THEN {"Pending"} ELSE {"Pending", "Some"}

\* the arm None of the match on the output of next(): a line is logged
BusyWait == UNCHANGED <<tasks, segs>>

\* select branch: send_futures.next() yielded a completion
Completion ==
  /\ pc = "select"
  /\ \/ /\ "Some" \in poll_next(tasks)
        /\ \E i \in DOMAIN tasks, res \in {"ok", "err"} : Yield(i, res)
     \/ /\ "None" \in poll_next(tasks)
        /\ BusyWait
  /\ pending' = CancelRead(pending)
  /\ UNCHANGED <<pc, max_size, max_duration, object_name_pattern, input, source,
                 consumed, now>>
  /\ UNCHANGED uploadVars
  /\ UNCHANGED <<evalVars, urlVars, hostVars, sizeVars>>

\* drain loop: send_futures.next().await yielded a completion
DrainCompletion ==
  /\ pc = "drain"
  /\ DrainPending(tasks)
  /\ \/ /\ "Some" \in poll_next(tasks)
        /\ \E i \in DOMAIN tasks, res \in {"ok", "err"} : Yield(i, res)
     \/ /\ "None" \in poll_next(tasks)
        /\ BusyWait
  /\ UNCHANGED <<pc, max_size, max_duration, object_name_pattern, input, source, pending,
                 consumed, now>>
  /\ UNCHANGED uploadVars
  /\ UNCHANGED <<evalVars, urlVars, hostVars, sizeVars>>

\* drain loop: send_futures is empty, run returns Ok(())
DrainReturn ==
  /\ pc = "drain"
  /\ ~DrainPending(tasks)
  /\ pc' = "done"
  /\ UNCHANGED <<max_size, max_duration, object_name_pattern, input, source, pending,
                 consumed, now, segs, tasks>>
  /\ UNCHANGED uploadVars
  /\ UNCHANGED <<evalVars, urlVars, hostVars, sizeVars>>

\* the clock advances while the loop waits in the select; the loop reads no
\* clock anywhere else
Tick ==
  /\ pc = "select"
  /\ now < MaxTime
  /\ now' = now + 1
  /\ UNCHANGED <<pc, max_size, max_duration, object_name_pattern, input, source, pending,
                 consumed, segs, tasks>>
  /\ UNCHANGED uploadVars
  /\ UNCHANGED <<evalVars, urlVars, hostVars, sizeVars>>

\* a result or an error of the upload task: the SendFileError variant, "Ok"
\* or "none", and the part a part error comes from (0 if from none)
Outcome(kind) == [kind |-> kind, part_number |-> 0]

NoRequests ==
  [put_object |-> 0, create_multipart_upload |-> 0, upload_part |-> 0,
   complete_multipart_upload |-> 0, abort_multipart_upload |-> 0, parts |-> <<>>,
   content_length |-> 0]

\* the upload task is not part of the event-loop specification
UploadIdle ==
  /\ upc = "idle" /\ compress = FALSE /\ uncompressed_size = 0 /\ disk_size = 0
  /\ size = 0 /\ path_exists = FALSE /\ upload_id = "none" /\ futures = <<>>
  /\ finished = <<>> /\ completed_parts = <<>> /\ saved_error = Outcome("none")
  /\ requests = NoRequests /\ result = Outcome("none")

\* run is entered with an input of n distinct bytes 1..n
Init ==
  /\ pc = "open"
  /\ max_size \in 1..MaxSizeArg
  /\ max_duration \in 1..MaxDurationArg
  /\ object_name_pattern \in Patterns
  /\ \E n \in 0..MaxInput : input = [i \in 1..n |-> i]
  /\ source = input
  /\ pending = <<>>
  /\ consumed = <<>>
  /\ now = 0
  /\ segs = <<>>
  /\ tasks = <<>>
  /\ UploadIdle
  /\ EvalIdle
  /\ UrlIdle
  /\ HostIdle
  /\ SizeIdle

Next ==
  \/ OpenSegment
  \/ OpenFail
  \/ Fetch
  \/ TimeoutFired
  \/ ReadData
  \/ ReadEof
  \/ ReadError
  \/ Completion
  \/ DrainCompletion
  \/ DrainReturn
  \/ Tick

Spec == Init /\ [][Next]_vars

\* past MaxTime the clock is followed up to the deadline of the current segment
TickToDeadline ==
  /\ pc = "select"
  /\ now >= MaxTime
  /\ Current.timeout # Never /\ now < Current.timeout
  /\ now' = now + 1
  /\ UNCHANGED <<pc, max_size, max_duration, object_name_pattern, input, source, pending,
                 consumed, segs, tasks>>
  /\ UNCHANGED uploadVars
  /\ UNCHANGED <<evalVars, urlVars, hostVars, sizeVars>>

\* run is entered with the largest size limit and the longest deadline
\* tried, which keep a segment open longest, and the pattern that uses the clock
InitFair ==
  /\ Init
  /\ max_size = MaxSizeArg
  /\ max_duration = MaxDurationArg
  /\ object_name_pattern = <<"{", "{", "{", " ", "s", "e", "c", "o", "n", "d", "}", "}", "}">>

NextFair ==
  \/ Next
  \/ TickToDeadline

\* the event loop with a clock that goes on and a timer branch that is taken
\* once the timer has completed; nothing is assumed of the reader, which may
\* stay open and deliver nothing, nor of the uploads
FairSpec ==
  /\ InitFair /\ [][NextFair]_vars
  /\ WF_vars(Tick) /\ WF_vars(TickToDeadline) /\ WF_vars(TimeoutFired)

\* -------------------------------------------------------- the upload task
\* the on-disk sizes tried: around every multiple of MAX_PART_SIZE up to
\* MaxParts parts, and 25 MiB
Sizes ==
  {0, 1, 25 * 1048576}
    \cup {k * MAX_PART_SIZE + d : k \in 1..MaxParts, d \in {-1, 0, 1}}

\* the sizes a gzip stream can have: never below its header and trailer
GzipSizes == {s \in Sizes : s >= 20}

\* the event loop is not part of the upload specification
LoopIdle ==
  /\ pc = "idle" /\ max_size = 0 /\ max_duration = 0 /\ object_name_pattern = <<>>
  /\ input = <<>> /\ source = <<>> /\ pending = <<>> /\ consumed = <<>> /\ now = 0
  /\ segs = <<>> /\ tasks = <<>>

\* do_send_file is entered with a sealed segment of uncompressed_size bytes
\* whose temp file will hold disk_size bytes once the writer is shut down
InitUpload ==
  /\ LoopIdle
  /\ SizeIdle
  /\ EvalIdle
  /\ UrlIdle
  /\ HostIdle
  /\ upc = "shutdown"
  /\ compress \in BOOLEAN
  /\ uncompressed_size \in Sizes
  /\ disk_size \in (IF compress THEN GzipSizes ELSE {uncompressed_size})
  /\ size = 0
  /\ path_exists = TRUE
  /\ upload_id = "none"
  /\ futures = <<>>
  /\ finished = <<>>
  /\ completed_parts = <<>>
  /\ saved_error = Outcome("none")
  /\ requests = NoRequests
  /\ result = Outcome("none")

\* do_send_file returns res: its arguments are dropped, the TempPath with them
Return(res) ==
  /\ result' = res
  /\ upc' = "done"
  /\ path_exists' = FALSE

\* mutant of FinalSize: the size is the uncompressed byte count of the loop
FinalSizeUncompressed(on_disk, uncompressed) == uncompressed

\* the size do_send_file works with: the result of seeking to the end of the file
FinalSize(on_disk, uncompressed) == on_disk

\* mutant of ChooseStrategy: a file of exactly MAX_PART_SIZE goes multi-part
ChooseStrategyStrict(s) == IF s < MAX_PART_SIZE THEN "single" ELSE "multi"

\* the strategy test of do_send_file
ChooseStrategy(s) == IF s <= MAX_PART_SIZE THEN "single" ELSE "multi"

\* mutant of PartEnd: the end of a part is not clamped to the file size
PartEndUnclamped(start, s) == start + MAX_PART_SIZE

\* the end of the part that starts at `start`
PartEnd(start, s) == Min(start + MAX_PART_SIZE, s)

\* the while loop of send_file_multi: one future per part
RECURSIVE PlanParts(_, _, _)
PlanParts(start, part_number, s) ==
  IF start < s
  THEN <<[part_number |-> part_number, start |-> start, end |-> PartEnd(start, s),
          state |-> "new", yielded |-> FALSE]>>
         \o PlanParts(PartEnd(start, s), part_number + 1, s)
  ELSE <<>>

PartTerminal(f) == f.state \in {"ok", "err_io", "err_upload"}

\* mutant of NextOutput: outputs are yielded in completion order
NextOutputUnordered(fs) == {i \in DOMAIN fs : ~fs[i].yielded /\ PartTerminal(fs[i])}

\* FuturesOrdered::next: the output of the oldest future not yet yielded, once
\* that future has finished
NextOutput(fs) ==
  {i \in DOMAIN fs : /\ ~fs[i].yielded
                     /\ PartTerminal(fs[i])
                     /\ \A j \in 1..(i - 1) : fs[j].yielded}

\* mutant of FinalizeErr: the error is returned and the temp file is kept
FinalizeErrKeepsFile ==
  /\ result' = Outcome("IO")
  /\ upc' = "done"
  /\ UNCHANGED path_exists

\* an I/O error of shutdown or of a seek is returned from do_send_file by `?`
\* or by return Err(e.into())
FinalizeErr == Return(Outcome("IO"))

\* file.shutdown().await?
Shutdown ==
  /\ upc = "shutdown"
  /\ \/ upc' = "seek_end" /\ UNCHANGED <<result, path_exists>>
     \/ FinalizeErr
  /\ UNCHANGED <<compress, uncompressed_size, disk_size, size, upload_id, futures,
                 finished, completed_parts, saved_error, requests>>
  /\ UNCHANGED loopVars
  /\ UNCHANGED <<evalVars, urlVars, hostVars, sizeVars>>

\* file.seek(SeekFrom::End(0))
SeekEnd ==
  /\ upc = "seek_end"
  /\ \/ /\ size' = FinalSize(disk_size, uncompressed_size)
        /\ upc' = "seek_start"
        /\ UNCHANGED <<result, path_exists>>
     \/ FinalizeErr /\ UNCHANGED size
  /\ UNCHANGED <<compress, uncompressed_size, disk_size, upload_id, futures,
                 finished, completed_parts, saved_error, requests>>
  /\ UNCHANGED loopVars
  /\ UNCHANGED <<evalVars, urlVars, hostVars, sizeVars>>

\* file.seek(SeekFrom::Start(0)), then the choice of the path; the chosen
\* path builds its first request and awaits it
SeekStart ==
  /\ upc = "seek_start"
  /\ \/ /\ upc' = ChooseStrategy(size)
        /\ requests' =
             IF ChooseStrategy(size) = "single"
             THEN [requests EXCEPT !.put_object = @ + 1, !.content_length = size]
             ELSE [requests EXCEPT !.create_multipart_upload = @ + 1]
        /\ UNCHANGED <<result, path_exists>>
     \/ FinalizeErr /\ UNCHANGED requests
  /\ UNCHANGED <<compress, uncompressed_size, disk_size, size, upload_id, futures,
                 finished, completed_parts, saved_error>>
  /\ UNCHANGED loopVars
  /\ UNCHANGED <<evalVars, urlVars, hostVars, sizeVars>>

\* mutant of PutObjectErr: a failed put_object is requested a second time
PutObjectErrRetried ==
  IF requests.put_object < 2
  THEN /\ requests' = [requests EXCEPT !.put_object = @ + 1]
       /\ UNCHANGED <<upc, result, path_exists>>
  ELSE Return(Outcome("PutObject")) /\ UNCHANGED requests

\* send_file_single: put_object returned Err, which is returned as it is
PutObjectErr == Return(Outcome("PutObject")) /\ UNCHANGED requests

\* send_file_single: the response to put_object
PutObject ==
  /\ upc = "single"
  /\ \/ Return(Outcome("Ok")) /\ UNCHANGED requests
     \/ PutObjectErr
  /\ UNCHANGED <<compress, uncompressed_size, disk_size, size, upload_id, futures,
                 finished, completed_parts, saved_error>>
  /\ UNCHANGED loopVars
  /\ UNCHANGED <<evalVars, urlVars, hostVars, sizeVars>>

\* mutant of HoldTempPath: the TempPath is dropped once the parts are pushed
HoldTempPathDropped(exists) == FALSE

\* send_file_multi owns the TempPath until it returns; a part future gets a
\* copy of the file name only
HoldTempPath(exists) == exists

\* mutant of MissingUploadId: the parts are planned and pushed without an id
MissingUploadIdProceeds ==
  /\ futures' = PlanParts(0, 1, size)
  /\ upc' = "parts"
  /\ UNCHANGED <<upload_id, result, path_exists>>

\* the arm None of the match on resp.upload_id
MissingUploadId ==
  /\ Return(Outcome("NoUploadPartId"))
  /\ UNCHANGED <<upload_id, futures>>

\* send_file_multi: the response to create_multipart_upload; with an upload
\* id the part futures are planned and pushed
CreateMultipartUpload ==
  /\ upc = "multi"
  /\ \/ /\ upload_id' = "id"
        /\ futures' = PlanParts(0, 1, size)
        /\ upc' = "parts"
        /\ path_exists' = HoldTempPath(path_exists)
        /\ UNCHANGED result
     \/ MissingUploadId
     \/ Return(Outcome("CreateMultipartUpload")) /\ UNCHANGED <<upload_id, futures>>
  /\ UNCHANGED <<compress, uncompressed_size, disk_size, size, finished,
                 completed_parts, saved_error, requests>>
  /\ UNCHANGED loopVars
  /\ UNCHANGED <<evalVars, urlVars, hostVars, sizeVars>>

\* part i moves to state st; a terminal state is recorded in finished
SetPart(i, st) ==
  /\ futures' = [futures EXCEPT ![i].state = st]
  /\ finished' = IF st \in {"ok", "err_io", "err_upload"}
                 THEN Append(finished, futures[i].part_number) ELSE finished

\* send_file_part: File::open(path)
PartOpen ==
  /\ upc = "parts"
  /\ \E i \in DOMAIN futures :
       /\ futures[i].state = "new"
       /\ \/ path_exists /\ SetPart(i, "opened")
          \/ SetPart(i, "err_io")
  /\ UNCHANGED <<upc, compress, uncompressed_size, disk_size, size, path_exists,
                 upload_id, completed_parts, saved_error, requests, result>>
  /\ UNCHANGED loopVars
  /\ UNCHANGED <<evalVars, urlVars, hostVars, sizeVars>>

\* send_file_part: file.seek(SeekFrom::Start(start)), then the upload_part request
PartSeek ==
  /\ upc = "parts"
  /\ \E i \in DOMAIN futures :
       /\ futures[i].state = "opened"
       /\ \/ /\ SetPart(i, "uploading")
             /\ requests' = [requests EXCEPT !.upload_part = @ + 1]
          \/ SetPart(i, "err_io") /\ UNCHANGED requests
  /\ UNCHANGED <<upc, compress, uncompressed_size, disk_size, size, path_exists,
                 upload_id, completed_parts, saved_error, result>>
  /\ UNCHANGED loopVars
  /\ UNCHANGED <<evalVars, urlVars, hostVars, sizeVars>>

\* send_file_part: the response to upload_part
PartUpload ==
  /\ upc = "parts"
  /\ \E i \in DOMAIN futures :
       /\ futures[i].state = "uploading"
       /\ \/ SetPart(i, "ok")
          \/ SetPart(i, "err_upload")
  /\ UNCHANGED <<upc, compress, uncompressed_size, disk_size, size, path_exists,
                 upload_id, completed_parts, saved_error, requests, result>>
  /\ UNCHANGED loopVars
  /\ UNCHANGED <<evalVars, urlVars, hostVars, sizeVars>>

\* the error a failed part returns
PartError(f) ==
  [kind |-> IF f.state = "err_io" THEN "IO" ELSE "UploadPart",
   part_number |-> f.part_number]

\* mutant of SaveError: the first error observed is kept
SaveErrorKeepFirst(saved, f) ==
  IF f.state = "ok" \/ saved.kind # "none" THEN saved ELSE PartError(f)

\* the match on an output of futures.next(): Err(e) => saved_error = Some(e)
SaveError(saved, f) == IF f.state = "ok" THEN saved ELSE PartError(f)

\* mutant of is_none: the commit is requested whatever was saved
is_none_unchecked(error) == TRUE

\* saved_error.is_none()
is_none(error) == error.kind = "none"

\* mutant of LoopEnds: the loop is left at the first failed part
LoopEndsOnError(fs, i) ==
  \/ \A j \in DOMAIN fs : j # i => fs[j].yielded
  \/ fs[i].state # "ok"

\* the collecting loop ends when futures.next() returns None: the output of
\* part i was the last one to take
LoopEnds(fs, i) == \A j \in DOMAIN fs : j # i => fs[j].yielded

\* the collecting loop of send_file_multi: futures.next() yields an output;
\* after the last one the loop ends and complete_multipart_upload or
\* abort_multipart_upload is requested
Collect ==
  /\ upc = "parts"
  /\ \E i \in NextOutput(futures) :
       LET parts == IF futures[i].state = "ok"
                    THEN Append(completed_parts, futures[i].part_number)
                    ELSE completed_parts
           error == SaveError(saved_error, futures[i])
           last  == LoopEnds(futures, i)
       IN /\ futures' = [futures EXCEPT ![i].yielded = TRUE]
          /\ completed_parts' = parts
          /\ saved_error' = error
          /\ upc' = IF ~last THEN "parts"
                    ELSE IF is_none(error) THEN "complete" ELSE "abort"
          /\ requests' =
               IF ~last THEN requests
               ELSE IF is_none(error)
               THEN [requests EXCEPT !.complete_multipart_upload = @ + 1,
                                     !.parts = parts]
               ELSE [requests EXCEPT !.abort_multipart_upload = @ + 1]
  /\ UNCHANGED <<compress, uncompressed_size, disk_size, size, path_exists,
                 upload_id, finished, result>>
  /\ UNCHANGED loopVars
  /\ UNCHANGED <<evalVars, urlVars, hostVars, sizeVars>>

\* the response to complete_multipart_upload; a failure is saved and
\* abort_multipart_upload is requested
CompleteMultipartUpload ==
  /\ upc = "complete"
  /\ \/ Return(Outcome("Ok")) /\ UNCHANGED <<saved_error, requests>>
     \/ /\ saved_error' = Outcome("CompleteMultipartUpload")
        /\ requests' = [requests EXCEPT !.abort_multipart_upload = @ + 1]
        /\ upc' = "abort"
        /\ UNCHANGED <<result, path_exists>>
  /\ UNCHANGED <<compress, uncompressed_size, disk_size, size, upload_id, futures,
                 finished, completed_parts>>
  /\ UNCHANGED loopVars
  /\ UNCHANGED <<evalVars, urlVars, hostVars, sizeVars>>

\* mutant of AbortOutcome: a failed abort is returned in place of the saved error
AbortOutcomeMasked(aborted, saved) ==
  IF aborted THEN saved ELSE Outcome("AbortMultipartUpload")

\* the match on the response to abort_multipart_upload: both arms return
\* Err(saved_error.unwrap())
AbortOutcome(aborted, saved) == saved

\* the response to abort_multipart_upload: the saved error is returned
\* whether the abort succeeded or failed
AbortMultipartUpload ==
  /\ upc = "abort"
  /\ \E aborted \in BOOLEAN : Return(AbortOutcome(aborted, saved_error))
  /\ UNCHANGED <<compress, uncompressed_size, disk_size, size, upload_id, futures,
                 finished, completed_parts, saved_error, requests>>
  /\ UNCHANGED loopVars
  /\ UNCHANGED <<evalVars, urlVars, hostVars, sizeVars>>

NextUpload ==
  \/ Shutdown
  \/ SeekEnd
  \/ SeekStart
  \/ PutObject
  \/ CreateMultipartUpload
  \/ PartOpen
  \/ PartSeek
  \/ PartUpload
  \/ Collect
  \/ CompleteMultipartUpload
  \/ AbortMultipartUpload

SpecUpload == InitUpload /\ [][NextUpload]_vars

\* ------------------------------------------- calls of evaluate_pattern_at
\* the arguments host_id, now and unique tried: those of test_evaulate_at,
\* and a date whose fields all need padding with an all-zero nonce
EvalCases ==
  << [host_id |-> <<"l", "o", "c", "a", "l", "h", "o", "s", "t">>,
      now |-> [year |-> 2020, month |-> 5, day |-> 4,
               hour |-> 15, minute |-> 20, second |-> 10],
      unique |-> <<75, 214, 151, 173, 47, 90, 94, 180, 189, 105, 122, 210, 245, 165, 235>>],
     [host_id |-> HostId,
      now |-> [year |-> 987, month |-> 1, day |-> 2,
               hour |-> 0, minute |-> 3, second |-> 9],
      unique |-> <<0, 0, 0, 0, 0, 0, 0, 0, 0, 0, 0, 0, 0, 0, 0>>] >>

\* characters the scan copies unchanged
LiteralChars == {"t", " ", "/"}

\* whitespace put around a variable name inside the braces
Paddings == { <<>>, <<"\t", " ">> }

\* names no variable is bound to, none with surrounding whitespace
UnknownNames == { <<>>, <<"Y", "e", "a", "r">>, <<"d", "a", " ", "y">> }

\* what may follow an opening brace that is never closed
OpenTails == { <<>>, <<" ">>, VarHostId }

\* the pieces that end the pattern: nothing can follow them without
\* changing what they are
EndKinds == {"unmatched_open", "unmatched_close_end"}

\* the call evaluate_pattern_at(pattern \o tok.text, host_id, now, unique)
\* of the pattern extended by one piece
CanAppend ==
  /\ eval_case \in DOMAIN EvalCases
  /\ Len(tokens) < MaxTokens
  /\ tokens # <<>> => tokens[Len(tokens)].kind \notin EndKinds

AppendToken(tok) ==
  /\ tokens' = Append(tokens, tok)
  /\ pattern' = pattern \o tok.text
  /\ eval_result' = evaluate_pattern_at(pattern \o tok.text,
                                        EvalCases[eval_case].host_id,
                                        EvalCases[eval_case].now,
                                        EvalCases[eval_case].unique)
  /\ UNCHANGED eval_case
  /\ UNCHANGED <<loopVars, uploadVars, urlVars, hostVars, sizeVars>>

\* a normal character
AppendLiteral ==
  /\ CanAppend
  /\ \E c \in LiteralChars :
       AppendToken([kind |-> "literal", text |-> <<c>>, name |-> <<c>>])

\* an escaped open brace
AppendEscapedOpen ==
  /\ CanAppend
  /\ AppendToken([kind |-> "escaped_open", text |-> <<"{", "{">>, name |-> <<>>])

\* an escaped close brace
AppendEscapedClose ==
  /\ CanAppend
  /\ AppendToken([kind |-> "escaped_close", text |-> <<"}", "}">>, name |-> <<>>])

\* a variable of a bound name, with or without whitespace around the name
AppendVariable ==
  /\ CanAppend
  /\ \E name \in VariableNames, left \in Paddings, right \in Paddings :
       AppendToken([kind |-> "variable",
                    text |-> <<"{">> \o left \o name \o right \o <<"}">>,
                    name |-> name])

\* a variable of a name that is not bound
AppendUnknownVariable ==
  /\ CanAppend
  /\ \E name \in UnknownNames, left \in Paddings, right \in Paddings :
       AppendToken([kind |-> "unknown_variable",
                    text |-> <<"{">> \o left \o name \o right \o <<"}">>,
                    name |-> name])

\* an open brace with no close brace up to the end of the pattern
AppendUnmatchedOpen ==
  /\ CanAppend
  /\ \E tail \in OpenTails :
       AppendToken([kind |-> "unmatched_open", text |-> <<"{">> \o tail, name |-> <<>>])

\* a close brace outside a variable, at the end of the pattern or followed
\* by a character other than a close brace
AppendUnmatchedClose ==
  /\ CanAppend
  /\ \/ AppendToken([kind |-> "unmatched_close_end", text |-> <<"}">>, name |-> <<>>])
     \/ \E c \in LiteralChars \cup {"{"} :
          AppendToken([kind |-> "unmatched_close", text |-> <<"}", c>>, name |-> <<>>])

\* evaluate_pattern_at is called with the empty pattern
InitEval ==
  /\ LoopIdle
  /\ SizeIdle
  /\ UploadIdle
  /\ UrlIdle
  /\ HostIdle
  /\ tokens = <<>>
  /\ pattern = <<>>
  /\ eval_case \in DOMAIN EvalCases
  /\ eval_result = evaluate_pattern_at(<<>>, EvalCases[eval_case].host_id,
                                       EvalCases[eval_case].now,
                                       EvalCases[eval_case].unique)

NextEval ==
  \/ AppendLiteral
  \/ AppendEscapedOpen
  \/ AppendEscapedClose
  \/ AppendVariable
  \/ AppendUnknownVariable
  \/ AppendUnmatchedOpen
  \/ AppendUnmatchedClose

SpecEval == InitEval /\ [][NextEval]_vars

\* ------------------------------------------------- calls of parse_s3_url
S3_PROTO_PREFIX == <<"s", "3", ":", "/", "/">>

\* mutant of StartsWith: only the length of the prefix is looked at
StartsWithUnchecked(s, prefix) == Len(s) >= Len(prefix)

\* the test s3_url.len() >= prefix.len() && s3_url.starts_with(prefix)
StartsWith(s, prefix) ==
  Len(s) >= Len(prefix) /\ SubSeq(s, 1, Len(prefix)) = prefix

\* index of the first "/" of s at or after position j, 0 if there is none
RECURSIVE FindSlash(_, _)
FindSlash(s, j) == IF j > Len(s) THEN 0
                   ELSE IF s[j] = "/" THEN j ELSE FindSlash(s, j + 1)

\* index of the last "/" of s at or before position j, 0 if there is none
RECURSIVE FindLastSlash(_, _)
FindLastSlash(s, j) == IF j < 1 THEN 0
                       ELSE IF s[j] = "/" THEN j ELSE FindLastSlash(s, j - 1)

\* mutant of SplitN2: the string is split at its last "/"
RSplitN2(s) ==
  LET k == FindLastSlash(s, Len(s))
  IN IF k = 0 THEN <<s>> ELSE <<SubSeq(s, 1, k - 1), SubSeq(s, k + 1, Len(s))>>

\* the items of s.splitn(2, '/')
SplitN2(s) ==
  LET k == FindSlash(s, 1)
  IN IF k = 0 THEN <<s>> ELSE <<SubSeq(s, 1, k - 1), SubSeq(s, k + 1, Len(s))>>

UrlOk(bucket, path) ==
  [ok |-> TRUE, bucket |-> bucket, path |-> path, reason |-> "", url |-> <<>>]

\* InvalidS3URL::InvalidURLFormat(reason, url)
UrlErr(reason, url) ==
  [ok |-> FALSE, bucket |-> <<>>, path |-> <<>>, reason |-> reason, url |-> url]

\* parse_s3_url has not returned yet
UrlNone == UrlErr("none", <<>>)

parse_s3_url(url) ==
  IF ~StartsWith(url, S3_PROTO_PREFIX)
  THEN UrlErr("URL must begin with 's3://'", url)
  ELSE LET bucket_and_prefix == SubSeq(url, Len(S3_PROTO_PREFIX) + 1, Len(url))
           parts == SplitN2(bucket_and_prefix)
           bucket == parts[1]
           name_pattern == IF Len(parts) >= 2 THEN parts[2] ELSE <<>>
       IN IF bucket = <<>> THEN UrlErr("bucket/path cannot be empty", url)
          ELSE IF name_pattern = <<>> THEN UrlErr("path cannot be empty", url)
          ELSE UrlOk(bucket, name_pattern)

\* the strings of at most n characters of the set chars
StringsUpTo(chars, n) == UNION {[1..k -> chars] : k \in 0..n}

\* what the URLs tried start with
Prefixes ==
  { S3_PROTO_PREFIX, <<>>, <<"s", "3", ":">>, <<"s", "3", ":", "/">>,
    <<"S", "3", ":", "/", "/">>, <<"s", "3", "/", "/">> }

BucketChars == {"b", "-"}

PathChars == {"p", "/", "{"}

\* parse_s3_url is called with prefix \o bucket \o "/" \o path, or with
\* prefix \o bucket
InitUrl ==
  /\ LoopIdle
  /\ SizeIdle
  /\ UploadIdle
  /\ EvalIdle
  /\ HostIdle
  /\ \E prefix \in Prefixes, bucket \in StringsUpTo(BucketChars, MaxBucketLen),
        slash \in BOOLEAN, path \in StringsUpTo(PathChars, MaxPathLen) :
       /\ ~slash => path = <<>>
       /\ url_parts = [prefix |-> prefix, bucket |-> bucket, slash |-> slash,
                       path |-> path]
       /\ s3_url = prefix \o bucket \o (IF slash THEN <<"/">> ELSE <<>>) \o path
  /\ url_result = UrlNone

\* the call parse_s3_url(s3_url)
ParseS3Url ==
  /\ url_result = UrlNone
  /\ url_result' = parse_s3_url(s3_url)
  /\ UNCHANGED <<url_parts, s3_url>>
  /\ UNCHANGED <<loopVars, uploadVars, evalVars, hostVars, sizeVars>>

NextUrl == ParseS3Url

SpecUrl == InitUrl /\ [][NextUrl]_vars

\* --------------------------------------------------- calls of get_host_id
ECS_V4_ENDPOINT_VAR == "ECS_CONTAINER_METADATA_URI_V4"
ECS_V3_ENDPOINT_VAR == "ECS_CONTAINER_METADATA_URI"

\* the outcomes of get_host_id_from_ecs_metadata_endpoint for an endpoint
\* reqwest can send a request to: a reqwest error (connect, timeout, status,
\* JSON), a task ARN the regex does not match, or the task id
EcsOutcomes == {"ReqwestError", "InvalidTaskArn", "ok"}

\* the outcomes for ECS_V2_ENDPOINT, "169.254.170.2/v2/metadata": the string
\* has no scheme, so the request builder holds a URL error and send returns it
EcsV2Outcomes == {"ReqwestError"}

\* the outcomes of a request to the instance metadata service
Ec2Outcomes == {"ReqwestError", "ok"}

\* the value a successful probe of a source delivers
ProbeValue ==
  [ecs_v4 |-> "task-v4", ecs_v3 |-> "task-v3", ecs_v2 |-> "task-v2",
   ec2_token |-> "token", ec2_instance_id |-> "i-0abc",
   hostname |-> "host", ethernet_ip |-> "10.0.0.1"]

\* the record of one probe
Probe(src, outcome, header) ==
  [source |-> src, outcome |-> outcome, header |-> header]

\* get_host_id returns v
ReturnHostId(v) == host_id' = v /\ host_pc' = "done"

\* one step of get_host_id_from_ecs_metadata for the endpoint of `src`:
\* the probe is made, its task id is returned or the next source is tried
ProbeEcs(src, outcomes, next) ==
  \E outcome \in outcomes :
    /\ host_probes' = Append(host_probes, Probe(src, outcome, "none"))
    /\ IF outcome = "ok"
       THEN ReturnHostId(ProbeValue[src])
       ELSE host_pc' = next /\ UNCHANGED host_id

\* the v4 endpoint, probed if its variable is set
ProbeEcsV4 ==
  /\ host_pc = "ecs_v4"
  /\ IF ECS_V4_ENDPOINT_VAR \in host_env
     THEN ProbeEcs("ecs_v4", EcsOutcomes, "ecs_v3")
     ELSE host_pc' = "ecs_v3" /\ UNCHANGED <<host_probes, host_id>>
  /\ UNCHANGED <<host_env, host_token>>
  /\ UNCHANGED <<loopVars, uploadVars, evalVars, urlVars, sizeVars>>

\* the v3 endpoint, probed if its variable is set
ProbeEcsV3 ==
  /\ host_pc = "ecs_v3"
  /\ IF ECS_V3_ENDPOINT_VAR \in host_env
     THEN ProbeEcs("ecs_v3", EcsOutcomes, "ecs_v2")
     ELSE host_pc' = "ecs_v2" /\ UNCHANGED <<host_probes, host_id>>
  /\ UNCHANGED <<host_env, host_token>>
  /\ UNCHANGED <<loopVars, uploadVars, evalVars, urlVars, sizeVars>>

\* the v2 endpoint
ProbeEcsV2 ==
  /\ host_pc = "ecs_v2"
  /\ ProbeEcs("ecs_v2", EcsV2Outcomes, "ec2_token")
  /\ UNCHANGED <<host_env, host_token>>
  /\ UNCHANGED <<loopVars, uploadVars, evalVars, urlVars, sizeVars>>

\* mutant of TokenErrNext: without a token the instance id is not asked for
TokenErrSkipsInstanceId == "hostname"

\* where get_host_id_from_ec2_metadata goes on when the token fetch failed:
\* the error is turned into None by ok() and get_ec2_instance_id is called
TokenErrNext == "ec2_instance_id"

\* get_imdsv2_metadata_token().await.ok()
FetchToken ==
  /\ host_pc = "ec2_token"
  /\ \E outcome \in Ec2Outcomes :
       /\ host_probes' = Append(host_probes, Probe("ec2_token", outcome, "none"))
       /\ host_token' = IF outcome = "ok" THEN ProbeValue["ec2_token"] ELSE "none"
       /\ host_pc' = IF outcome = "ok" THEN "ec2_instance_id" ELSE TokenErrNext
  /\ UNCHANGED <<host_env, host_id>>
  /\ UNCHANGED <<loopVars, uploadVars, evalVars, urlVars, sizeVars>>

\* get_ec2_instance_id(token).await.ok()
GetInstanceId ==
  /\ host_pc = "ec2_instance_id"
  /\ \E outcome \in Ec2Outcomes :
       /\ host_probes' = Append(host_probes,
                                Probe("ec2_instance_id", outcome, host_token))
       /\ IF outcome = "ok"
          THEN ReturnHostId(ProbeValue["ec2_instance_id"])
          ELSE host_pc' = "hostname" /\ UNCHANGED host_id
  /\ UNCHANGED <<host_env, host_token>>
  /\ UNCHANGED <<loopVars, uploadVars, evalVars, urlVars, sizeVars>>

\* get_host_id_from_hostname: gethostname().into_string().ok()
Hostname ==
  /\ host_pc = "hostname"
  /\ \E outcome \in {"ok", "NotUnicode"} :
       /\ host_probes' = Append(host_probes, Probe("hostname", outcome, "none"))
       /\ IF outcome = "ok"
          THEN ReturnHostId(ProbeValue["hostname"])
          ELSE host_pc' = "ethernet_ip" /\ UNCHANGED host_id
  /\ UNCHANGED <<host_env, host_token>>
  /\ UNCHANGED <<loopVars, uploadVars, evalVars, urlVars, sizeVars>>

\* get_host_id_from_ethernet_ip: the first address that qualifies, or None
\* when get_if_addrs fails or no address qualifies
EthernetIp ==
  /\ host_pc = "ethernet_ip"
  /\ \E outcome \in {"ok", "NoInterfaces", "NoAddress"} :
       /\ host_probes' = Append(host_probes, Probe("ethernet_ip", outcome, "none"))
       /\ IF outcome = "ok"
          THEN ReturnHostId(ProbeValue["ethernet_ip"])
          ELSE host_pc' = "unknown" /\ UNCHANGED host_id
  /\ UNCHANGED <<host_env, host_token>>
  /\ UNCHANGED <<loopVars, uploadVars, evalVars, urlVars, sizeVars>>

\* the last line of get_host_id
GiveUp ==
  /\ host_pc = "unknown"
  /\ ReturnHostId("<unknown>")
  /\ UNCHANGED <<host_env, host_probes, host_token>>
  /\ UNCHANGED <<loopVars, uploadVars, evalVars, urlVars, sizeVars>>

\* get_host_id is called in an environment with any of the two variables set
InitHost ==
  /\ LoopIdle
  /\ SizeIdle
  /\ UploadIdle
  /\ EvalIdle
  /\ UrlIdle
  /\ host_pc = "ecs_v4"
  /\ host_env \in SUBSET {ECS_V4_ENDPOINT_VAR, ECS_V3_ENDPOINT_VAR}
  /\ host_probes = <<>>
  /\ host_token = "none"
  /\ host_id = "none"

NextHost ==
  \/ ProbeEcsV4
  \/ ProbeEcsV3
  \/ ProbeEcsV2
  \/ FetchToken
  \/ GetInstanceId
  \/ Hostname
  \/ EthernetIp
  \/ GiveUp

SpecHost == InitHost /\ [][NextHost]_vars

\* ------------------------------------------------- claims on the event loop
\* upload tasks pushed for segment j
TasksOf(j) == {i \in DOMAIN tasks : tasks[i].seg = j}

\* the bytes written to a segment
SegBytes(seg) == Flatten(seg.chunks)

\* the bytes of all segments, in the order the segments were opened
AllBytes == Flatten([j \in DOMAIN segs |-> SegBytes(segs[j])])

NoWriteError == \A j \in DOMAIN segs : segs[j].cause # "write_error"

\* C1: every sealed segment whose object-name template evaluated successfully
\* has exactly one upload task, whatever sealed it; a segment that is not
\* sealed has none.
C1_SealOneTask ==
  \A j \in DOMAIN segs :
    /\ (segs[j].sealed /\ segs[j].named) => Cardinality(TasksOf(j)) = 1
    /\ ~segs[j].sealed => TasksOf(j) = {}

\* segments sealed by the deadline, by a write error and by EOF all have a task
C1_Witness ==
  \E j, k, l \in DOMAIN segs :
    /\ segs[j].cause = "deadline" /\ segs[j].named /\ TasksOf(j) # {}
    /\ segs[k].cause = "write_error" /\ segs[k].named /\ TasksOf(k) # {}
    /\ segs[l].cause = "eof" /\ segs[l].named /\ TasksOf(l) # {}

\* C2: when the input delivers exactly max_size bytes and is closed, with no
\* deadline seal, write error or template error on the way, run returns with
\* exactly one segment sealed and exactly one upload task dispatched.
C2_OneSegmentOneTask ==
  ( /\ pc = "done"
    /\ Len(consumed) = max_size /\ source = <<>> /\ pending = <<>>
    /\ segs[Len(segs)].cause = "eof"
    /\ \A j \in DOMAIN segs : segs[j].named /\ segs[j].cause \in {"size", "eof"} )
  => (Len(segs) = 1 /\ Len(tasks) = 1)

\* C3 as stated: with max_size = 1 each input byte has a segment of its own,
\* no segment holds two input bytes.
C3_EachByteOwnSegment ==
  max_size = 1 => \A j \in DOMAIN segs : Len(SegBytes(segs[j])) <= 1

\* C3 amended: with max_size = 1 each successfully written read result has a
\* segment of its own: no segment holds bytes of two read results, and a
\* segment sealed by the size limit holds exactly one whole read result.
C3_EachReadOwnSegment ==
  max_size = 1 =>
    \A j \in DOMAIN segs :
      /\ Len(segs[j].chunks) <= 1
      /\ segs[j].cause = "size" =>
           /\ Len(segs[j].chunks) = 1
           /\ segs[j].current_size = Len(segs[j].chunks[1])
           /\ segs[j].current_size >= 1

\* a read result of two bytes sealed a segment of two bytes
C3_Witness ==
  /\ max_size = 1
  /\ \E j \in DOMAIN segs : segs[j].cause = "size" /\ segs[j].current_size = 2

\* C4: the temp file of a segment is unlinked once its upload task has
\* completed, with either result, and when the upload was skipped; when run
\* has returned Ok no temp file is left.
C4_TempFilesUnlinked ==
  /\ \A i \in DOMAIN tasks :
       tasks[i].state \in {"ok", "err"} => ~segs[tasks[i].seg].exists
  /\ \A j \in DOMAIN segs : (segs[j].sealed /\ ~segs[j].named) => ~segs[j].exists
  /\ pc = "done" => \A j \in DOMAIN segs : ~segs[j].exists

\* run has returned after one upload succeeded and one failed
C4_Witness ==
  /\ pc = "done"
  /\ \E i, k \in DOMAIN tasks : tasks[i].state = "ok" /\ tasks[k].state = "err"

\* C5: when run has returned Ok the input was seen closed (EOF or read error)
\* and every upload task pushed has delivered its completion to the loop.
C5_ReturnAfterDrain ==
  pc = "done" =>
    /\ segs[Len(segs)].cause \in {"eof", "read_error"}
    /\ QueueLen(tasks) = 0
    /\ \A i \in DOMAIN tasks : tasks[i].state \in {"ok", "err"} /\ tasks[i].yielded = 1

\* run has returned after two upload tasks were pushed
C5_Witness == pc = "done" /\ Len(tasks) >= 2

\* C6: while no temp-file write has failed, the bytes of the segments in the
\* order the segments were opened are exactly the bytes the reads returned,
\* and these followed by the bytes still to be read are the input: no byte
\* is dropped, repeated or reordered.
C6_ArrivalOrder ==
  NoWriteError =>
    /\ AllBytes = consumed
    /\ consumed \o pending \o source = input

\* the deadline sealed a segment while a read held fetched bytes
C6_Witness ==
  /\ pc = "open" /\ NoWriteError
  /\ segs # <<>>
  /\ segs[Len(segs)].cause = "deadline"
  /\ pending # <<>>

\* C7: wherever the loop waits in the select the read branch can proceed,
\* whatever the number of upload tasks in flight.
C7_ReadNeverThrottled ==
  pc = "select" =>
    /\ pending # <<>> => ENABLED ReadData
    /\ (pending = <<>> /\ source # <<>>) => ENABLED Fetch
    /\ (pending = <<>> /\ source = <<>>) => ENABLED ReadEof

\* the loop waits with an upload in flight and input ready to be read
C7_Witness == pc = "select" /\ QueueLen(tasks) >= 1 /\ pending # <<>>

\* ------------------------------------------------ claims on the upload task
\* do_send_file has chosen its path and built the first request of that path
StrategyChosen == requests.put_object + requests.create_multipart_upload > 0

PartLen(f) == f["end"] - f.start

\* C8: the path is chosen by the size found on disk after the writer was shut
\* down, not by the uncompressed count: single-shot if it is at most
\* MAX_PART_SIZE, multi-part otherwise; MAX_PART_SIZE + 1 bytes are planned as
\* two parts of MAX_PART_SIZE bytes and of 1 byte.
C8_StrategyBySize ==
  /\ StrategyChosen =>
       /\ size = disk_size
       /\ requests.put_object = (IF disk_size <= MAX_PART_SIZE THEN 1 ELSE 0)
       /\ requests.create_multipart_upload = (IF disk_size > MAX_PART_SIZE THEN 1 ELSE 0)
  /\ futures # <<>> => disk_size > MAX_PART_SIZE
  /\ (futures # <<>> /\ disk_size = MAX_PART_SIZE + 1) =>
       /\ Len(futures) = 2
       /\ PartLen(futures[1]) = MAX_PART_SIZE
       /\ PartLen(futures[2]) = 1

\* a gzip file of MAX_PART_SIZE + 1 bytes, made from no more than MAX_PART_SIZE
\* input bytes, has been planned as a multi-part upload
C8_Witness ==
  /\ compress /\ uncompressed_size <= MAX_PART_SIZE
  /\ disk_size = MAX_PART_SIZE + 1
  /\ Len(futures) = 2

\* C9: the planned part ranges are non-empty, at most MAX_PART_SIZE long and
\* all but the last exactly that long, pairwise disjoint, inside [0, size) and
\* of total length size, so that their union is [0, size); the part numbers
\* are 1..ceil(size / MAX_PART_SIZE) in range order; 25 MiB are planned as
\* [0, 10 MiB), [10 MiB, 20 MiB), [20 MiB, 25 MiB).
C9_PartCoverage ==
  futures # <<>> =>
    /\ \A i \in DOMAIN futures :
         /\ futures[i].part_number = i
         /\ 0 <= futures[i].start /\ futures[i].start < futures[i]["end"]
         /\ futures[i]["end"] <= size
         /\ PartLen(futures[i]) <= MAX_PART_SIZE
         /\ i < Len(futures) => PartLen(futures[i]) = MAX_PART_SIZE
    /\ \A i, j \in DOMAIN futures :
         i < j => futures[i]["end"] <= futures[j].start
    /\ SumSeq([i \in DOMAIN futures |-> PartLen(futures[i])]) = size
    /\ Len(futures) = (size + MAX_PART_SIZE - 1) \div MAX_PART_SIZE
    /\ size = 25 * 1048576 =>
         [i \in DOMAIN futures |-> <<futures[i].start, futures[i]["end"]>>]
           = << <<0, 10485760>>, <<10485760, 20971520>>, <<20971520, 26214400>> >>

\* a file of 25 MiB has been planned
C9_Witness == size = 25 * 1048576 /\ Len(futures) = 3

\* C10: the part list of the complete-multipart-upload request holds the part
\* numbers 1..N in ascending order, each once, in whatever order the part
\* uploads finished.
C10_CommitInOrder ==
  requests.complete_multipart_upload > 0 =>
    requests.parts = [i \in 1..Len(futures) |-> i]

\* the commit was requested after a part finished before a part of lower number
C10_Witness ==
  /\ requests.complete_multipart_upload > 0
  /\ \E i, j \in DOMAIN finished : i < j /\ finished[i] > finished[j]

\* C11: the single-shot path issues exactly one put_object request, of content
\* length the size found on disk, and no multi-part request; it issues no
\* second request whatever the response, and the task returns Ok or
\* Err(PutObject).
C11_SinglePutNoRetry ==
  /\ requests.put_object > 0 =>
       /\ requests.put_object = 1
       /\ requests.content_length = disk_size
       /\ disk_size <= MAX_PART_SIZE
       /\ requests.create_multipart_upload = 0 /\ requests.upload_part = 0
       /\ requests.complete_multipart_upload = 0 /\ requests.abort_multipart_upload = 0
       /\ upc \in {"single", "done"}
       /\ upc = "done" => result.kind \in {"Ok", "PutObject"}
  /\ result.kind = "PutObject" => requests.put_object = 1

\* the put_object of a gzip file whose size differs from the uncompressed
\* count has failed and the task has returned
C11_Witness ==
  /\ upc = "done" /\ result.kind = "PutObject"
  /\ requests.put_object = 1
  /\ compress /\ disk_size # uncompressed_size

\* ------------------------------------------------ claims on error handling
\* the step seals the current segment without an object name
SealsUnnamed ==
  /\ pc = "select"
  /\ segs'[Len(segs)].sealed /\ ~segs'[Len(segs)].named

\* C12: a step that seals the current segment while the object-name template
\* fails to evaluate pushes no upload task and unlinks the temp file of the
\* segment; it leaves the loop at the top of the outer loop, where the next
\* segment is opened, unless EOF or a read error sealed the segment, and then
\* it leaves it at the drain loop; no input still to be read is lost.
C12_TemplateErrorSkipsUpload ==
  [][SealsUnnamed =>
       /\ tasks' = tasks
       /\ Len(segs') = Len(segs)
       /\ ~segs'[Len(segs)].exists
       /\ pc' = (IF segs'[Len(segs)].cause \in {"eof", "read_error"}
                 THEN "drain" ELSE "open")
       /\ consumed' \o pending' \o source' = consumed \o pending \o source]_vars

\* after a segment was sealed by the size limit with no name generated, a
\* new segment was opened and has received bytes of a later read
C12_Witness ==
  \E j \in DOMAIN segs :
    /\ segs[j].sealed /\ ~segs[j].named /\ segs[j].cause = "size"
    /\ TasksOf(j) = {} /\ ~segs[j].exists
    /\ j < Len(segs) /\ segs[j + 1].chunks # <<>>

\* the step is a read of n_read > 0 bytes whose write to the temp file fails:
\* the bytes are consumed and current_size is left as it was
WriteFails ==
  /\ pc = "select"
  /\ consumed' # consumed
  /\ segs'[Len(segs)].current_size = Current.current_size

\* C13: a step in which the write to the temp file fails seals the current
\* segment, whatever its size and whether or not its deadline is armed, and
\* pushes an upload task for it if a name is generated; it leaves the loop at
\* the top of the outer loop, where the next segment is opened, and loses no
\* input still to be read.
C13_WriteErrorSeals ==
  [][WriteFails =>
       /\ Len(segs') = Len(segs)
       /\ segs'[Len(segs)].sealed /\ segs'[Len(segs)].cause = "write_error"
       /\ segs'[Len(segs)].named =>
            /\ Len(tasks') = Len(tasks) + 1
            /\ tasks'[Len(tasks')].seg = Len(segs)
            /\ tasks'[Len(tasks')].state = "inflight"
       /\ pc' = "open"
       /\ source' = source]_vars

\* a write failed on a segment below the size limit whose deadline was armed
\* and not yet due; the segment was sealed, its upload pushed, and the loop
\* waits in the select with a new segment
C13_Witness ==
  /\ pc = "select" /\ Len(segs) >= 2
  /\ LET seg == segs[Len(segs) - 1]
     IN /\ seg.cause = "write_error" /\ seg.named
        /\ seg.current_size > 0 /\ seg.current_size < max_size
        /\ seg.timeout # Never /\ seg.timeout > now
        /\ TasksOf(Len(segs) - 1) # {}

\* C14: a step in which the read returns an error seals the current segment,
\* pushes an upload task for it if a name is generated, and leaves the loop
\* at the drain loop; from then on no byte is read and no segment is opened,
\* and run is in the drain loop or has returned.
C14_ReadErrorEndsInput ==
  [][/\ (pc = "select" /\ segs'[Len(segs)].cause = "read_error") =>
          /\ Len(segs') = Len(segs)
          /\ segs'[Len(segs)].sealed
          /\ segs'[Len(segs)].named =>
               /\ Len(tasks') = Len(tasks) + 1
               /\ tasks'[Len(tasks')].seg = Len(segs)
               /\ tasks'[Len(tasks')].state = "inflight"
          /\ pc' = "drain"
     /\ (segs # <<>> /\ Current.cause = "read_error") =>
          /\ pc \in {"drain", "done"} /\ pc' \in {"drain", "done"}
          /\ Len(segs') = Len(segs)
          /\ consumed' = consumed /\ pending' = pending /\ source' = source]_vars

\* run has returned after a read error sealed the last segment: the upload of
\* that segment has completed and part of the input was never read
C14_Witness ==
  /\ pc = "done" /\ segs # <<>>
  /\ segs[Len(segs)].cause = "read_error" /\ segs[Len(segs)].named
  /\ \E i \in TasksOf(Len(segs)) : tasks[i].state = "ok"
  /\ source # <<>>

\* C15 as stated: a failure to create the temp file of a new segment does not
\* stop the event loop, and the upload tasks in flight still complete: run is
\* never left with an error and no pushed task is dropped before it finished.
C15_OpenFailureContinues ==
  /\ pc # "failed"
  /\ \A i \in DOMAIN tasks : tasks[i].state # "dropped"

\* ------------------------------------------------------ claims on the names
\* C16 as stated: two segments sealed by the same process never receive the
\* same object name.
C16_NamesNeverCollide ==
  \A i, j \in DOMAIN tasks : i # j => tasks[i].object_name # tasks[j].object_name

\* C16 amended: when the pattern uses the variable unique, two segments
\* whose evaluations drew different nonces receive different object names,
\* whatever the host id and the clock readings; their names are the same when
\* the two nonces are the same and the pattern uses no clock field.
C16_NamesDifferWithNonces ==
  VarUnique \in PatternVariables(object_name_pattern, 1) =>
    \A i, j \in DOMAIN tasks :
      /\ tasks[i].unique # tasks[j].unique
           => tasks[i].object_name # tasks[j].object_name
      /\ (tasks[i].unique = tasks[j].unique
            /\ PatternVariables(object_name_pattern, 1) \subseteq {VarUnique, VarHostId})
           => tasks[i].object_name = tasks[j].object_name

\* two segments were sealed at the same clock reading with different nonces
C16_Witness ==
  /\ VarUnique \in PatternVariables(object_name_pattern, 1)
  /\ now = 0
  /\ \E i, j \in DOMAIN tasks :
       /\ i # j
       /\ tasks[i].unique # tasks[j].unique
       /\ tasks[i].object_name # tasks[j].object_name

\* ------------------------------------------- claims on evaluate_pattern_at
\* the bindings stated for the two argument sets: host_id as it is, year of
\* 4 digits, the other clock fields of 2 digits, unique in base32 unpadded
ExpectedBindings ==
  << 
  [v \in VariableNames |->
     CASE v = VarHostId -> <<"l", "o", "c", "a", "l", "h", "o", "s", "t">>
       [] v = VarYear   -> <<"2", "0", "2", "0">>
       [] v = VarMonth  -> <<"0", "5">>
       [] v = VarDay    -> <<"0", "4">>
       [] v = VarHour   -> <<"1", "5">>
       [] v = VarMinute -> <<"2", "0">>
       [] v = VarSecond -> <<"1", "0">>
       [] v = VarUnique -> <<"J", "P", "L", "J", "P", "L", "J", "P", "L", "J", "P", "L", "J", "P", "L", "J", "P", "L", "J", "P", "L", "J", "P", "L">>],
  [v \in VariableNames |->
     CASE v = VarHostId -> <<"i", "-", "1">>
       [] v = VarYear   -> <<"0", "9", "8", "7">>
       [] v = VarMonth  -> <<"0", "1">>
       [] v = VarDay    -> <<"0", "2">>
       [] v = VarHour   -> <<"0", "0">>
       [] v = VarMinute -> <<"0", "3">>
       [] v = VarSecond -> <<"0", "9">>
       [] v = VarUnique -> <<"A", "A", "A", "A", "A", "A", "A", "A", "A", "A", "A", "A", "A", "A", "A", "A", "A", "A", "A", "A", "A", "A", "A", "A">>] >>

\* the left-to-right decoding of well-formed pieces
RECURSIVE Decoding(_, _)
Decoding(toks, bindings) ==
  IF toks = <<>> THEN <<>>
  ELSE (CASE Head(toks).kind = "literal"       -> Head(toks).name
          [] Head(toks).kind = "escaped_open"  -> <<"{">>
          [] Head(toks).kind = "escaped_close" -> <<"}">>
          [] Head(toks).kind = "variable"      -> bindings[Head(toks).name])
       \o Decoding(Tail(toks), bindings)

WellFormedKinds == {"literal", "escaped_open", "escaped_close", "variable"}

WellFormed(toks) == \A i \in DOMAIN toks : toks[i].kind \in WellFormedKinds

\* the first piece that is not well formed
FirstMalformed(toks) ==
  toks[CHOOSE i \in DOMAIN toks :
         /\ toks[i].kind \notin WellFormedKinds
         /\ \A j \in 1..(i - 1) : toks[j].kind \in WellFormedKinds]

\* C17: for a pattern put together from normal characters, escaped braces
\* and variables of bound names, with or without whitespace around the name,
\* evaluate_pattern_at returns Ok of the left-to-right decoding: "{{" gives
\* "{", "}}" gives "}", a variable gives its binding and any other character
\* itself.
C17_WellFormedDecoding ==
  (eval_case \in DOMAIN EvalCases /\ WellFormed(tokens)) =>
    eval_result = [ok |-> TRUE, val |-> Decoding(tokens, ExpectedBindings[eval_case])]

\* a padded variable and an escaped brace have been evaluated with the clock
\* fields that need zero padding
C17_Witness ==
  /\ eval_case = 2 /\ Len(tokens) = 2
  /\ tokens[1].kind = "variable" /\ tokens[1].name = VarYear
  /\ tokens[1].text = <<"{", "\t", " ", "y", "e", "a", "r", "\t", " ", "}">>
  /\ tokens[2].kind = "escaped_close"
  /\ eval_result = [ok |-> TRUE, val |-> <<"0", "9", "8", "7", "}">>]

\* C18: for a pattern whose first piece that is not well formed is an open
\* brace never closed, a close brace outside a variable not followed by a
\* close brace, or a variable of an unbound name, evaluate_pattern_at returns
\* Err with the message for that piece and nothing else, whatever well-formed
\* pieces precede it.
C18_MalformedRejected ==
  (eval_case \in DOMAIN EvalCases /\ ~WellFormed(tokens)) =>
    LET tok == FirstMalformed(tokens)
    IN eval_result =
         [ok |-> FALSE,
          val |-> CASE tok.kind = "unmatched_open" -> <<"Unmatched '{'">>
                    [] tok.kind \in {"unmatched_close", "unmatched_close_end"}
                         -> <<"Unmatched '}'">>
                    [] tok.kind = "unknown_variable"
                         -> <<"Unknown template variable '">> \o tok.name \o <<"'">>]

\* a variable was evaluated and the open brace after it is never closed
C18_Witness ==
  /\ Len(tokens) = 2
  /\ tokens[1].kind = "variable"
  /\ tokens[2].kind = "unmatched_open" /\ tokens[2].text = <<"{">> \o VarHostId
  /\ eval_result = [ok |-> FALSE, val |-> <<"Unmatched '{'">>]

\* ------------------------------------------------- claims on parse_s3_url
\* parse_s3_url has returned
Parsed == url_result # UrlNone /\ url_result # <<>>

\* C19: for a non-empty bucket b and a non-empty path p, the call
\* parse_s3_url("s3://" \o b \o "/" \o p) returns Ok((b, p)), whatever
\* slashes and braces p holds.
C19_ParseInvertsConstruction ==
  ( /\ Parsed
    /\ url_parts.prefix = <<"s", "3", ":", "/", "/">>
    /\ url_parts.bucket # <<>> /\ url_parts.slash /\ url_parts.path # <<>> )
  => /\ url_result.ok
     /\ url_result.bucket = url_parts.bucket
     /\ url_result.path = url_parts.path

\* a URL whose path holds a slash of its own and a brace has been parsed
C19_Witness ==
  /\ Parsed
  /\ url_parts.prefix = <<"s", "3", ":", "/", "/">>
  /\ url_parts.bucket = <<"b", "-">> /\ url_parts.slash
  /\ url_parts.path = <<"/", "{">>
  /\ url_result.ok /\ url_result.path = <<"/", "{">>

BeginsWithS3(url) ==
  /\ Len(url) >= 5
  /\ url[1] = "s" /\ url[2] = "3" /\ url[3] = ":" /\ url[4] = "/" /\ url[5] = "/"

\* C20: parse_s3_url returns an error that carries the URL it was given,
\* with the reason "URL must begin with 's3://'" if the URL does not begin
\* with s3://, "bucket/path cannot be empty" if the bucket after s3:// is
\* empty, with or without a path, and "path cannot be empty" if the bucket
\* is not empty and the path is empty or missing.
C20_ParseRejects ==
  Parsed =>
    /\ ~BeginsWithS3(s3_url) =>
         /\ ~url_result.ok /\ url_result.url = s3_url
         /\ url_result.reason = "URL must begin with 's3://'"
    /\ (url_parts.prefix = <<"s", "3", ":", "/", "/">> /\ url_parts.bucket = <<>>) =>
         /\ ~url_result.ok /\ url_result.url = s3_url
         /\ url_result.reason = "bucket/path cannot be empty"
    /\ ( /\ url_parts.prefix = <<"s", "3", ":", "/", "/">>
         /\ url_parts.bucket # <<>> /\ url_parts.path = <<>> ) =>
         /\ ~url_result.ok /\ url_result.url = s3_url
         /\ url_result.reason = "path cannot be empty"

\* s3:bb/p has been rejected for its prefix
C20_Witness ==
  /\ Parsed
  /\ s3_url = <<"s", "3", ":", "b", "b", "/", "p">>
  /\ ~url_result.ok /\ url_result.url = s3_url
  /\ url_result.reason = "URL must begin with 's3://'"

\* --------------------------------------------------- claims on get_host_id
\* the order of the sources
SourceOrder ==
  <<"ecs_v4", "ecs_v3", "ecs_v2", "ec2_token", "ec2_instance_id",
    "hostname", "ethernet_ip">>

SourceRank(src) == CHOOSE r \in DOMAIN SourceOrder : SourceOrder[r] = src

\* the sources probed so far
Probed == {host_probes[i].source : i \in DOMAIN host_probes}

\* the probe delivered a host id; a token is not one
Succeeded(probe) == probe.outcome = "ok" /\ probe.source # "ec2_token"

\* C21: the probes are made in the order v4, v3, v2, token, instance id,
\* hostname, IP, each at most once, a v4 or v3 probe only if its variable is
\* set; no probe follows one that delivered a host id; a failed token fetch is
\* followed by the instance-id request, made without the token header; on
\* return the value is that of the one probe that succeeded, or "<unknown>"
\* after every source was probed and failed; get_host_id never ends in
\* another way.
C21_FirstSuccessInOrder ==
  /\ host_pc \in {"idle", "ecs_v4", "ecs_v3", "ecs_v2", "ec2_token",
                  "ec2_instance_id", "hostname", "ethernet_ip", "unknown", "done"}
  /\ \A i, j \in DOMAIN host_probes :
       i < j => SourceRank(host_probes[i].source) < SourceRank(host_probes[j].source)
  /\ \A i \in DOMAIN host_probes :
       /\ Succeeded(host_probes[i]) => (i = Len(host_probes) /\ host_pc = "done")
       /\ host_probes[i].source = "ecs_v4" => ECS_V4_ENDPOINT_VAR \in host_env
       /\ host_probes[i].source = "ecs_v3" => ECS_V3_ENDPOINT_VAR \in host_env
       /\ (host_probes[i].source = "ec2_token" /\ i < Len(host_probes)) =>
            /\ host_probes[i + 1].source = "ec2_instance_id"
            /\ host_probes[i + 1].header =
                 (IF host_probes[i].outcome = "ok" THEN "token" ELSE "none")
  /\ (host_probes # <<>> /\ host_probes[Len(host_probes)].source = "ec2_token")
       => host_pc = "ec2_instance_id"
  /\ host_pc = "done" =>
       IF host_probes # <<>> /\ Succeeded(host_probes[Len(host_probes)])
       THEN host_id = ProbeValue[host_probes[Len(host_probes)].source]
       ELSE /\ host_id = "<unknown>"
            /\ Probed = {SourceOrder[r] : r \in 3..7}
                          \cup (IF ECS_V4_ENDPOINT_VAR \in host_env THEN {"ecs_v4"} ELSE {})
                          \cup (IF ECS_V3_ENDPOINT_VAR \in host_env THEN {"ecs_v3"} ELSE {})
  /\ host_pc # "done" => host_id = "none"

\* the instance id was returned after the v4 probe and the token fetch failed
C21_Witness ==
  /\ host_pc = "done" /\ host_id = "i-0abc"
  /\ \E i, j \in DOMAIN host_probes :
       /\ host_probes[i].source = "ecs_v4" /\ host_probes[i].outcome # "ok"
       /\ host_probes[j].source = "ec2_token" /\ host_probes[j].outcome # "ok"
  /\ "hostname" \notin Probed

\* ---------------------------------------------- claims on the segment state
\* C22: wherever the loop waits in the select, the deadline of the current
\* segment is armed if and only if current_size is positive; a segment that
\* has received no write has size 0 and no deadline; a segment sealed by the
\* deadline is not empty and was sealed by the deadline its own first write
\* armed.
C22_DeadlineGating ==
  /\ pc = "select" => (Current.timeout # Never <=> Current.current_size > 0)
  /\ \A j \in DOMAIN segs :
       /\ segs[j].chunks = <<>> =>
            (segs[j].current_size = 0 /\ segs[j].timeout = Never /\ segs[j].armed = 0)
       /\ segs[j].cause = "deadline" =>
            /\ segs[j].current_size > 0 /\ SegBytes(segs[j]) # <<>>
            /\ segs[j].timeout # Never /\ segs[j].armed = 1

\* the loop waits with an armed, non-empty segment that was opened after the
\* deadline sealed the segment before it
C22_Witness ==
  /\ pc = "select" /\ Len(segs) >= 2
  /\ segs[Len(segs) - 1].cause = "deadline"
  /\ Current.current_size > 0 /\ Current.timeout > segs[Len(segs) - 1].timeout

\* C23: the deadline of a segment is set at most once; the step that sets it
\* is a read whose write takes the segment from size 0 to a positive size,
\* and sets it to the time of the step plus max_duration; once set it never
\* changes, whatever is written later; a step that is not a read (deadline,
\* completion, clock) changes neither the size nor the deadline of a segment.
C23_DeadlineSetOnce ==
  [][\A j \in DOMAIN segs :
       /\ j \in DOMAIN segs'
       /\ segs[j].timeout # Never => segs'[j].timeout = segs[j].timeout
       /\ (segs[j].timeout = Never /\ segs'[j].timeout # Never) =>
            /\ consumed' # consumed
            /\ segs[j].current_size = 0 /\ segs'[j].current_size > 0
            /\ segs'[j].timeout = now + max_duration
       /\ segs'[j].armed <= 1
       /\ consumed' = consumed =>
            /\ segs'[j].current_size = segs[j].current_size
            /\ segs'[j].timeout = segs[j].timeout]_vars

\* a second write reached a segment one tick after its first write, and the
\* deadline is still that of the first write
C23_Witness ==
  /\ pc = "open" /\ now = 1 /\ segs # <<>>
  /\ LET seg == segs[Len(segs)]
     IN /\ seg.cause = "size" /\ Len(seg.chunks) = 2
        /\ seg.timeout = max_duration /\ seg.armed = 1

\* the segments that accept writes
Unsealed(ss) == {j \in DOMAIN ss : ~ss[j].sealed}

\* C24: after every step at most one segment accepts writes, and it is the
\* last one opened, with the loop waiting in the select; a sealed segment
\* stays sealed and receives no further write; a step that opens a segment
\* opens one, and only when every segment before it is sealed.
C24_SingleWriter ==
  [][/\ Cardinality(Unsealed(segs')) <= 1
     /\ \A j \in Unsealed(segs') : j = Len(segs') /\ pc' = "select"
     /\ \A j \in DOMAIN segs :
          segs[j].sealed =>
            /\ j \in DOMAIN segs' /\ segs'[j].sealed
            /\ segs'[j].chunks = segs[j].chunks
            /\ segs'[j].current_size = segs[j].current_size
     /\ Len(segs') # Len(segs) =>
          /\ Len(segs') = Len(segs) + 1
          /\ Unsealed(segs) = {}
          /\ Unsealed(segs') = {Len(segs')}]_vars

\* the loop has written to a second segment while the upload task that owns
\* the first is in flight
C24_Witness ==
  /\ pc = "select" /\ Len(segs) = 2
  /\ segs[1].sealed /\ \E i \in TasksOf(1) : tasks[i].state = "inflight"
  /\ ~segs[2].sealed /\ segs[2].chunks # <<>>

\* ------------------------------------------- claims on the multi-part path
\* the part upload has not returned yet
PartRunning(f) == f.state \in {"new", "opened", "uploading"}

\* C25: while the upload task has not returned its temp file is linked: it
\* is linked whenever a part upload has still to open or read it, and once it
\* is unlinked the task has returned and every part upload has finished and
\* has been collected.
C25_FileOutlivesParts ==
  /\ upc # "done" => path_exists
  /\ (\E i \in DOMAIN futures : PartRunning(futures[i])) => path_exists
  /\ ~path_exists =>
       /\ upc = "done"
       /\ \A i \in DOMAIN futures : PartTerminal(futures[i]) /\ futures[i].yielded

\* a part is reading the file after the failure of another part was collected
C25_Witness ==
  /\ upc = "parts" /\ path_exists
  /\ \E i, j \in DOMAIN futures :
       /\ futures[i].state = "err_upload" /\ futures[i].yielded
       /\ futures[j].state = "uploading"

\* -------------------------------------------------- claims on the task set
\* C26 as stated: each task pushed to the queue is yielded by next() exactly
\* once: never twice, and once run has ended, with Ok or with an error, no
\* pushed task is left that was not yielded.
C26_OneCompletionPerTask ==
  /\ \A i \in DOMAIN tasks : tasks[i].yielded <= 1
  /\ pc \in {"done", "failed"} => \A i \in DOMAIN tasks : tasks[i].yielded = 1

\* C27: no poll of the queue returns None in any state; while the queue is
\* empty a poll returns Pending only, so the select cannot take the
\* completion branch and the drain loop cannot take a turn.
C27_EmptyQueuePending ==
  /\ "None" \notin poll_next(tasks)
  /\ (pc = "select" /\ QueueLen(tasks) = 0) =>
       (poll_next(tasks) = {"Pending"} /\ ~ENABLED Completion)
  /\ (pc = "drain" /\ QueueLen(tasks) = 0) => ~ENABLED DrainCompletion

\* the loop waits in the select with the queue empty again after an upload
\* was pushed and has completed
C27_Witness ==
  /\ pc = "select" /\ QueueLen(tasks) = 0
  /\ \E i \in DOMAIN tasks : tasks[i].yielded = 1

\* ------------------------------------- claims on the end of a multi-part upload
\* the collecting loop has taken the output of every part
PartsCollected ==
  futures # <<>> /\ \A i \in DOMAIN futures : futures[i].yielded

\* every part upload succeeded
AllPartsOk == \A i \in DOMAIN futures : futures[i].state = "ok"

\* a part upload failed
PartFailed(f) == f.state \in {"err_io", "err_upload"}

\* C28: complete_multipart_upload is requested, once, if and only if the
\* output of every part was taken and every part succeeded; when that request
\* succeeds the upload task returns Ok and abort_multipart_upload was not
\* requested, and the task returns Ok on the multi-part path in no other way.
C28_CommitIffAllPartsOk ==
  /\ requests.complete_multipart_upload <= 1
  /\ requests.complete_multipart_upload = 1 <=> (PartsCollected /\ AllPartsOk)
  /\ (upc = "done" /\ PartsCollected /\ AllPartsOk /\ is_none(saved_error)) =>
       /\ result = Outcome("Ok")
       /\ requests.abort_multipart_upload = 0
  /\ (upc = "done" /\ requests.create_multipart_upload = 1 /\ result = Outcome("Ok")) =>
       /\ requests.complete_multipart_upload = 1
       /\ requests.abort_multipart_upload = 0

\* all parts succeeded, the commit succeeded, the task returned Ok
C28_Witness ==
  /\ upc = "done" /\ Len(futures) >= 2 /\ PartsCollected /\ AllPartsOk
  /\ requests.complete_multipart_upload = 1 /\ requests.abort_multipart_upload = 0
  /\ result = Outcome("Ok")

\* C29: abort_multipart_upload is requested at most once, and exactly once
\* when the outputs are collected and a part failed or the commit failed; the
\* task then returns the error of a failed part, or the commit error when
\* all parts succeeded, and never an error of the abort.
C29_AbortOnceKeepsError ==
  /\ requests.abort_multipart_upload <= 1
  /\ (PartsCollected /\ ~AllPartsOk) =>
       /\ requests.abort_multipart_upload = 1
       /\ upc \in {"abort", "done"}
       /\ upc = "done" =>
            \E i \in DOMAIN futures :
              PartFailed(futures[i]) /\ result = PartError(futures[i])
  /\ (PartsCollected /\ AllPartsOk /\ ~is_none(saved_error)) =>
       /\ requests.abort_multipart_upload = 1
       /\ upc \in {"abort", "done"}
       /\ saved_error = Outcome("CompleteMultipartUpload")
       /\ upc = "done" => result = Outcome("CompleteMultipartUpload")
  /\ requests.abort_multipart_upload = 1 =>
       /\ PartsCollected
       /\ ~AllPartsOk \/ saved_error = Outcome("CompleteMultipartUpload")
       /\ upc = "done" => result = saved_error

\* the commit failed after all parts succeeded, the abort was requested and
\* the task returned the commit error
C29_Witness ==
  /\ upc = "done" /\ PartsCollected /\ AllPartsOk
  /\ requests.complete_multipart_upload = 1 /\ requests.abort_multipart_upload = 1
  /\ result = Outcome("CompleteMultipartUpload")

\* the collecting loop takes the output of a failed part in this step
ObservesFailure(i) ==
  /\ i \in DOMAIN futures /\ i \in DOMAIN futures'
  /\ ~futures[i].yielded /\ futures'[i].yielded
  /\ PartFailed(futures[i])

\* C30: the saved error is the error of the failure the collecting loop took
\* last: each failure it takes replaces the saved error, an earlier one
\* included, nothing else changes the saved error while outputs are
\* collected, and with a failed part the task returns the saved error.
C30_LastObservedError ==
  /\ [][/\ \A i \in DOMAIN futures :
             ObservesFailure(i) => saved_error' = PartError(futures[i])
        /\ (upc = "parts" /\ ~\E i \in DOMAIN futures : ObservesFailure(i)) =>
             saved_error' = saved_error]_vars
  /\ []((upc = "done" /\ PartsCollected /\ ~AllPartsOk) => result = saved_error)

\* parts 1 and 2 both failed, part 2 earlier in time than part 1; the loop
\* took the failure of part 2 last and the task returned it
C30_Witness ==
  /\ upc = "done" /\ Len(futures) >= 2 /\ PartsCollected
  /\ futures[1].state = "err_upload" /\ futures[2].state = "err_io"
  /\ finished = <<2, 1>>
  /\ result = [kind |-> "IO", part_number |-> 2]

\* ------------------------------------------ claims on a partial part failure
\* the failed part whose output the collecting loop takes first, and last:
\* futures.next() yields in part-number order
FirstObservedFailure == CHOOSE i \in DOMAIN futures :
  PartFailed(futures[i]) /\ \A j \in 1..(i - 1) : ~PartFailed(futures[j])

LastObservedFailure == CHOOSE i \in DOMAIN futures :
  PartFailed(futures[i]) /\ \A j \in (i + 1)..Len(futures) : ~PartFailed(futures[j])

\* the part that was the first to fail in time
RECURSIVE FirstFailedOf(_)
FirstFailedOf(order) ==
  IF order = <<>> THEN 0
  ELSE IF PartFailed(futures[Head(order)]) THEN Head(order)
  ELSE FirstFailedOf(Tail(order))

\* C31 as stated: when one or more parts failed the session is aborted and
\* the task returns the error of the first part failure, be it the first in
\* time or the first the collecting loop observed.
C31_ReportsFirstError ==
  (upc = "done" /\ PartsCollected /\ ~AllPartsOk) =>
    /\ requests.abort_multipart_upload = 1
    /\ \/ result = PartError(futures[FirstObservedFailure])
       \/ result = PartError(futures[FirstFailedOf(finished)])

\* C31 amended: when one or more parts failed the session is aborted, no
\* commit is requested, and the task returns the error of the failed part
\* with the highest part number, the last one the collecting loop observes;
\* that is the first failure only when no part after it failed.
C31_ReportsLastError ==
  (upc = "done" /\ PartsCollected /\ ~AllPartsOk) =>
    /\ requests.abort_multipart_upload = 1
    /\ requests.complete_multipart_upload = 0
    /\ result = PartError(futures[LastObservedFailure])
    /\ (result = PartError(futures[FirstObservedFailure])) <=>
         (FirstObservedFailure = LastObservedFailure)

\* part 1 failed first, part 2 failed after it, and the task returned the
\* error of part 2
C31_Witness ==
  /\ upc = "done" /\ Len(futures) >= 2 /\ PartsCollected
  /\ futures[1].state = "err_upload" /\ futures[2].state = "err_upload"
  /\ finished = <<1, 2>>
  /\ requests.abort_multipart_upload = 1
  /\ result = [kind |-> "UploadPart", part_number |-> 2]

\* ------------------------------------------------ claims on the upload id
\* C32: a create_multipart_upload response without an upload id ends the
\* upload task with NoUploadPartId, and then no upload_part,
\* complete_multipart_upload or abort_multipart_upload was requested; in every
\* state a part future or one of these requests exists only with an upload id.
C32_NoRequestWithoutUploadId ==
  /\ result = Outcome("NoUploadPartId") =>
       /\ upc = "done" /\ upload_id = "none" /\ futures = <<>>
       /\ requests.create_multipart_upload = 1
       /\ requests.upload_part = 0
       /\ requests.complete_multipart_upload = 0
       /\ requests.abort_multipart_upload = 0
  /\ (upc = "done" /\ requests.create_multipart_upload = 1 /\ upload_id = "none") =>
       result.kind \in {"NoUploadPartId", "CreateMultipartUpload"}
  /\ (\/ futures # <<>>
      \/ requests.upload_part > 0
      \/ requests.complete_multipart_upload > 0
      \/ requests.abort_multipart_upload > 0) => upload_id = "id"

\* the response of create_multipart_upload had no upload id
C32_Witness ==
  /\ upc = "done" /\ result = Outcome("NoUploadPartId")
  /\ requests.create_multipart_upload = 1 /\ requests.upload_part = 0

\* ------------------------------------------------- claims on cancellation
\* C33 as stated: by whatever path run ends, every upload task that was
\* pushed has run to its own terminal state Ok or Err; none is dropped by
\* the event loop while in flight.
C33_TasksRunToTerminal ==
  pc \in {"done", "failed"} =>
    \A i \in DOMAIN tasks : tasks[i].state \in {"ok", "err"}

\* --------------------------------------------- claims on completion order
\* C34: the queue does not tie completion to seal order: in every state each
\* task in flight, a later-sealed one included, is one whose output next() can
\* yield next, and wherever the loop polls a non-empty queue a completion
\* can be taken.
C34_CompletionAnyOrder ==
  /\ \A i \in DOMAIN tasks : tasks[i].state = "inflight" => i \in Ready(tasks)
  /\ \A i, j \in DOMAIN tasks : i < j => tasks[i].seg < tasks[j].seg
  /\ (pc = "select" /\ QueueLen(tasks) > 0) => ENABLED Completion
  /\ (pc = "drain" /\ QueueLen(tasks) > 0) => ENABLED DrainCompletion

\* the upload of a later-sealed segment has completed while the upload of an
\* earlier-sealed segment is still in the task set
C34_Witness ==
  \E i, j \in DOMAIN tasks :
    /\ tasks[i].seg < tasks[j].seg
    /\ segs[tasks[i].seg].sealed /\ segs[tasks[j].seg].sealed
    /\ tasks[i].state = "inflight" /\ tasks[i].yielded = 0
    /\ tasks[j].state \in {"ok", "err"} /\ tasks[j].yielded = 1

\* ------------------------------------------------- claims on finalization
\* do_send_file has not yet finished shutdown and the two seeks
Finalizing == upc \in {"shutdown", "seek_end", "seek_start"}

\* C35: no object-store request is made while the segment is finalized; an
\* I/O error of shutdown or of a seek ends the upload task with Err(IO) with
\* no request made and the temp file removed, and the task ends without
\* any request in no other way.
C35_FinalizeErrorNoRequest ==
  /\ Finalizing => (requests = NoRequests /\ result = Outcome("none") /\ path_exists)
  /\ result = Outcome("IO") =>
       /\ upc = "done" /\ ~path_exists
       /\ requests = NoRequests /\ futures = <<>> /\ upload_id = "none"
  /\ (upc = "done" /\ requests = NoRequests) => result = Outcome("IO")

\* the seek to the start failed after the size was found: Err(IO), no request
C35_Witness ==
  /\ upc = "done" /\ result = Outcome("IO") /\ size > 0
  /\ requests = NoRequests /\ ~path_exists

\* ---------------------------------------------- claims on empty segments
\* segments that have received bytes
NonEmptySegs == {j \in DOMAIN segs : segs[j].current_size > 0}

\* C36: a segment sealed by EOF has its upload task, if a name was generated,
\* also when it holds no byte; while no temp-file write has failed only the
\* last segment can be sealed empty, by EOF or a read error, so the upload
\* tasks exceed the non-empty segments by one at most.
C36_EmptySegmentUploaded ==
  /\ \A j \in DOMAIN segs :
       (segs[j].cause = "eof" /\ segs[j].named) => Cardinality(TasksOf(j)) = 1
  /\ pc = "done" => segs[Len(segs)].sealed
  /\ NoWriteError =>
       /\ \A j \in DOMAIN segs :
            (segs[j].sealed /\ segs[j].current_size = 0) =>
              (j = Len(segs) /\ segs[j].cause \in {"eof", "read_error"})
       /\ Len(tasks) <= Cardinality(NonEmptySegs) + 1

\* the size limit sealed segment 1, EOF sealed segment 2 with no byte in it,
\* and both were uploaded: two upload tasks, one non-empty segment
C36_Witness ==
  /\ pc = "done" /\ Len(segs) = 2 /\ Len(tasks) = 2
  /\ segs[1].cause = "size" /\ segs[1].current_size > 0
  /\ segs[2].cause = "eof" /\ segs[2].current_size = 0 /\ segs[2].chunks = <<>>
  /\ TasksOf(2) # {}
  /\ Cardinality(NonEmptySegs) = 1

\* ------------------------------------------------- the byte counts of run
\* the lengths a read into buf: [u8; 65536] returns: the shortest ones, a
\* full buffer and one byte less
ReadLens == {1, 2, BufCapacity - 1, BufCapacity}

\* current_size: the lengths of the read results written with success
SizeOf(chunks) == SumSeq(chunks)

\* the current segment is sealed for `cause` after the read results of chunks
\* were written; bad_reader ends the outer loop
SizeSeal(chunks, cause, bad_reader) ==
  /\ sz_sealed' = Append(sz_sealed, [chunks |-> chunks, current_size |-> SizeOf(chunks),
                                     cause |-> cause])
  /\ sz_chunks' = <<>>
  /\ sz_pc' = IF bad_reader THEN "done" ELSE "select"

\* read returned Ok(n_read), n_read > 0: write_all of the n_read bytes, then
\* current_size += n_read and the test current_size >= max_size; a failed
\* write forces the flush with current_size as it was
SizeRead ==
  /\ sz_pc = "select"
  /\ Len(sz_sealed) < MaxSealed
  /\ \E n_read \in ReadLens :
       \/ IF FlushRequired(SizeOf(sz_chunks) + n_read, sz_max_size)
          THEN SizeSeal(Append(sz_chunks, n_read), "size", FALSE)
          ELSE sz_chunks' = Append(sz_chunks, n_read) /\ UNCHANGED <<sz_pc, sz_sealed>>
       \/ SizeSeal(sz_chunks, "write_error", FALSE)
  /\ UNCHANGED sz_max_size
  /\ UNCHANGED <<loopVars, uploadVars, evalVars, urlVars, hostVars>>

\* the timer, started by the first write of the segment, has elapsed
SizeTimeout ==
  /\ sz_pc = "select"
  /\ Len(sz_sealed) < MaxSealed
  /\ SizeOf(sz_chunks) > 0
  /\ SizeSeal(sz_chunks, "deadline", FALSE)
  /\ UNCHANGED sz_max_size
  /\ UNCHANGED <<loopVars, uploadVars, evalVars, urlVars, hostVars>>

\* read returned Ok(0) or Err
SizeEof ==
  /\ sz_pc = "select"
  /\ \E cause \in {"eof", "read_error"} : SizeSeal(sz_chunks, cause, TRUE)
  /\ UNCHANGED sz_max_size
  /\ UNCHANGED <<loopVars, uploadVars, evalVars, urlVars, hostVars>>

InitSize ==
  /\ LoopIdle
  /\ UploadIdle
  /\ EvalIdle
  /\ UrlIdle
  /\ HostIdle
  /\ sz_pc = "select"
  /\ sz_max_size \in 1..MaxSizeArg
  /\ sz_chunks = <<>>
  /\ sz_sealed = <<>>

NextSize ==
  \/ SizeRead
  \/ SizeTimeout
  \/ SizeEof

SpecSize == InitSize /\ [][NextSize]_vars

\* ------------------------------------------------ claims on segment sizes
\* C37: the current segment is below max_size while it is open; a sealed
\* segment holds whole read results only and at most max_size - 1 + 65536
\* bytes, and one sealed by the size limit holds at least max_size bytes, of
\* which fewer than max_size came before its last read result.
C37_SegmentSizeBounds ==
  /\ sz_pc = "select" => SizeOf(sz_chunks) < sz_max_size
  /\ \A j \in DOMAIN sz_sealed :
       LET seg == sz_sealed[j]
       IN /\ seg.current_size = SizeOf(seg.chunks)
          /\ \A k \in DOMAIN seg.chunks : seg.chunks[k] \in 1..BufCapacity
          /\ seg.current_size <= sz_max_size - 1 + BufCapacity
          /\ seg.cause = "size" =>
               /\ seg.chunks # <<>>
               /\ seg.current_size >= sz_max_size
               /\ seg.current_size - seg.chunks[Len(seg.chunks)] < sz_max_size
          /\ seg.cause # "size" => seg.current_size < sz_max_size

\* with max_size = 2 a segment of one byte received a full buffer and was
\* sealed with 65537 bytes, the bound
C37_Witness ==
  /\ sz_max_size = 2
  /\ \E j \in DOMAIN sz_sealed :
       /\ sz_sealed[j].cause = "size"
       /\ sz_sealed[j].chunks = <<1, BufCapacity>>
       /\ sz_sealed[j].current_size = sz_max_size - 1 + BufCapacity

\* --------------------------------------- claims on the end of the part uploads
\* C38: complete_multipart_upload or abort_multipart_upload is requested only
\* when every part upload has reached a terminal result and its output was
\* taken; while a part upload is running neither was requested, also after
\* another part has failed, and the running part can go on.
C38_NoEarlyAbort ==
  /\ (\/ requests.complete_multipart_upload > 0
      \/ requests.abort_multipart_upload > 0
      \/ upc \in {"complete", "abort"}) =>
       \A i \in DOMAIN futures : PartTerminal(futures[i]) /\ futures[i].yielded
  /\ (\E i \in DOMAIN futures : PartRunning(futures[i])) =>
       /\ upc = "parts"
       /\ requests.complete_multipart_upload = 0
       /\ requests.abort_multipart_upload = 0
       /\ result = Outcome("none")
  /\ (\E i \in DOMAIN futures : futures[i].state = "new") => ENABLED PartOpen
  /\ (\E i \in DOMAIN futures : futures[i].state = "opened") => ENABLED PartSeek
  /\ (\E i \in DOMAIN futures : futures[i].state = "uploading") => ENABLED PartUpload

\* the failure of part 1 was taken by the collecting loop and saved, part 2
\* has not yet been started, and no abort was requested
C38_Witness ==
  /\ upc = "parts" /\ Len(futures) >= 2
  /\ futures[1].state = "err_upload" /\ futures[1].yielded
  /\ saved_error = [kind |-> "UploadPart", part_number |-> 1]
  /\ futures[2].state = "new"
  /\ requests.abort_multipart_upload = 0

\* ------------------------------------------------------ claims on progress
\* segment j is not sealed and has received its first byte; only the last
\* segment can be unsealed, and no segment is opened before it is sealed
HoldsBytes(j) ==
  /\ j \in DOMAIN segs
  /\ ~segs[j].sealed
  /\ segs[j].current_size > 0

\* C39: a segment that has received its first byte is sealed in the end,
\* whatever the reader does from then on, also when it delivers nothing more
\* and does not close: the clock reaches the deadline started by the first
\* write and the timer branch seals the segment, unless the size limit, a
\* write error, EOF or a read error has sealed it before.
C39_NonEmptySegmentSealed ==
  HoldsBytes(Len(segs)) ~> (segs # <<>> /\ Current.sealed)

\* a segment that held bytes below the size limit was sealed by the deadline
\* while the input had more to deliver and had not been closed
C39_Witness ==
  /\ \E j \in DOMAIN segs :
       /\ segs[j].cause = "deadline"
       /\ segs[j].current_size > 0 /\ segs[j].current_size < max_size
  /\ source # <<>>

====
